---- MODULE Spec2Model ----
(***************************************************************************)
(* A model of the coffee-shop point of sale: the inventory table with its  *)
(* low-stock trigger, the order table with the order-management screens    *)
(* that change an order's status, and the order-details dialog of the      *)
(* sales-history page with its void and edit paths.                        *)
(*                                                                         *)
(* The store is PostgreSQL: one statement of a client, together with the   *)
(* row triggers it fires, is one transaction and is modelled as one step.  *)
(* A handler that issues several statements is modelled as one step per    *)
(* statement, so that other sessions may act in between.                   *)
(***************************************************************************)
EXTENDS Integers, Sequences, FiniteSets, Bags

\* ------------------------------------------------------------------ bounds

\* Cap on the number of rows of low_stock_alerts.
MaxAlerts == 2
\* Cap on the number of activity_logs rows the inventory screen writes.
MaxLogs == 1
\* Cap on the number of rows of order_actions: an insert into the full table fails.
MaxActions == 2
\* Cap on the number of activity_logs rows written about orders: an insert into
\* the full table fails.
MaxOrderLogs == 3
\* Cap on the number of calls of generate_order_number a behaviour follows.
MaxCalls == 4
\* Cap on the number of orders the checkout flows store; the screens are
\* followed until it is reached.
MaxOrders == 1
\* Cap on the quantity of one cart line.
MaxQuantity == 2
\* Orders inserted while the OrderManagement screen is subscribed.
MaxInserts == 3

\* ------------------------------------------------------------------ values

\* Primary keys of the inventory rows the model follows.
Items == {"inv1", "inv2"}
\* Values typed into the stock field of the inventory form (no min attribute: negatives pass).
StockValues == {0, 4, 5, 10, 20}
\* Values typed into the min-level field of the inventory form.
MinValues == {-1, 10}
\* Primary keys of the orders the model follows.
OrderIds == {"o1"}
\* Browser sessions of signed-in staff, each showing an order-management screen.
Sessions == {"s1", "s2"}
\* What is typed into the amount field of the action dialog.
AmountInputs == {"", "50"}

\* The days on which the order-number generator is called, as TO_CHAR(NOW(),
\* 'YYYYMMDD') reads them.
Days == <<20250807, 20250808>>
\* Values of order_sequence (its last value, 0 before the first NEXTVAL) at
\* which a behaviour of the generator starts.
SequenceStarts == {0, 998, 9998}

\* Primary keys of the menu items the model follows.
MenuIds == {"m1", "m2"}
\* Prices in centavos: every price is a whole number of pesos.
Prices == {5000, 10000}
\* The ids gen_random_uuid() gives to the orders, in insertion order.
NewOrderIds == <<"n1", "n2", "n3", "n4">>
\* The checkout screens: staff POS, customer homepage, customer menu.
Flows == {"pos", "homepage", "menu"}
\* What is typed into the name and phone fields of a checkout form.
NameInputs == {"", " ", "Ana"}
PhoneInputs == {"", "0917"}
\* The last four digits of Date.now() when the POS builds its order number.
ClockTails == {<<"0", "4", "1", "7">>, <<"0", "4", "1", "8">>}
\* The Math.random() part of the order number the customer homepage builds.
RandomTags == {<<"A", "B", "C", "D">>, <<"W", "X", "Y", "Z">>}

NoItem == [exists |-> FALSE]
\* The order number a component holds before it has one, and what a call of
\* the generator that raised returns.
NoNumber == <<>>
NoOrder == [exists |-> FALSE]

VARIABLES
  inventory,          \* public.inventory: Items -> row, or NoItem
  low_stock_alerts,   \* public.low_stock_alerts: bag of rows (the id column left out)
  activity_logs,      \* public.activity_logs: bag of rows
  profiles,           \* public.profiles: user_id -> role
  modal,              \* that page's OrderDetailsModal component state
  orders,             \* public.orders: OrderIds -> row, or NoOrder
  order_actions,      \* public.order_actions: bag of rows (the id column left out)
  mgmt,               \* Sessions -> the state of the session's OrderManagement component
  order_sequence,     \* the sequence order_sequence: its last value, 0 before the first NEXTVAL
  fn_search_path,     \* the search_path setting of the installed generate_order_number
  today,              \* the day NOW() falls on: an index into Days
  issued,             \* the strings the calls of generate_order_number returned, in call order
  menu_items,         \* public.menu_items: MenuIds -> row, or NoItem
  checkout_orders,    \* the rows the checkout flows inserted into public.orders; the id is the position
  order_items,        \* public.order_items: bag of rows (the id column left out)
  sales_logs,         \* public.sales_logs: bag of rows
  checkout,           \* the state of the checkout component that is open
  staff,              \* the state of the StaffManagement page that is open
  cartScreen,         \* a checkout screen's cart, followed render by render
  feed                \* an OrderManagement screen's realtime subscription and the rows inserted under it

vars == <<inventory, low_stock_alerts, activity_logs, orders, order_actions, mgmt, profiles, modal,
          order_sequence, fn_search_path, today, issued,
          menu_items, checkout_orders, order_items, sales_logs, checkout, feed, staff, cartScreen>>
genVars == <<order_sequence, fn_search_path, today, issued>>
checkoutVars == <<menu_items, checkout_orders, order_items, sales_logs, checkout>>
creationVars == <<genVars, checkoutVars>>
invVars == <<inventory, low_stock_alerts>>
ordVars == <<orders, order_actions, mgmt>>
modalVars == <<profiles, modal>>
feedVars == <<feed>>
staffVars == <<staff>>
screenVars == <<cartScreen>>

\* ------------------------------------------------------------------ inventory

\* CHECK (alert_level IN ('low', 'critical', 'out_of_stock'))
AlertLevels == {"low", "critical", "out_of_stock"}

InventoryRow(stock, min) ==
  [exists |-> TRUE, current_stock |-> stock, min_stock_level |-> min]

AlertRow(inv, level) ==
  [inventory_id |-> inv, alert_level |-> level, is_acknowledged |-> FALSE]

\* NewAlertLevels with the critical threshold taken strictly.
NewAlertLevels_strictHalf(stock, min) ==
  IF stock = 0 THEN {"out_of_stock"}
  ELSE IF stock <= min
       THEN (IF 2 * stock < min THEN {"critical"} ELSE {"low"})
       ELSE {}

\* The alert check_low_stock inserts for NEW: the set of levels (empty or one).
\* NEW.current_stock <= NEW.min_stock_level * 0.5 compares an integer with a
\* numeric, exactly: 2 * stock <= min.
NewAlertLevels(stock, min) ==
  IF stock = 0 THEN {"out_of_stock"}
  ELSE IF stock <= min
       THEN (IF 2 * stock <= min THEN {"critical"} ELSE {"low"})
       ELSE {}

\* DeleteUnacknowledged that deletes nothing.
DeleteUnacknowledged_none(alerts, inv) ==
  alerts

\* DeleteUnacknowledged without the is_acknowledged = false condition.
DeleteUnacknowledged_all(alerts, inv) ==
  LET keep == {a \in BagToSet(alerts) : a.inventory_id # inv}
  IN [a \in keep |-> alerts[a]]

\* DELETE FROM low_stock_alerts WHERE inventory_id = NEW.id AND is_acknowledged = false
DeleteUnacknowledged(alerts, inv) ==
  LET keep == {a \in BagToSet(alerts) : ~(a.inventory_id = inv /\ a.is_acknowledged = FALSE)}
  IN [a \in keep |-> alerts[a]]

\* check_low_stock(): the table of alerts after the trigger function ran for NEW.
check_low_stock(alerts, inv, new) ==
  DeleteUnacknowledged(alerts, inv)
    (+) SetToBag({AlertRow(inv, l) : l \in NewAlertLevels(new.current_stock, new.min_stock_level)})

\* The trigger without its WHEN condition.
inventory_low_stock_check_always(old, new) ==
  TRUE

\* WHEN (OLD.current_stock IS DISTINCT FROM NEW.current_stock)
inventory_low_stock_check(old, new) ==
  old.current_stock # new.current_stock

\* One row of activity_logs: the action and the entity its metadata names.
LogRow(action, entity) ==
  [action |-> action, entity |-> entity]

\* The activity log after a client's rpc('log_activity') that the store accepted
\* (ok) or rejected; the caller ignores the result.
log_activity(logs, row, ok) ==
  IF ok /\ BagCardinality(logs) < MaxLogs THEN logs (+) SetToBag({row}) ELSE logs

\* handleSubmit, insert branch: INSERT INTO inventory (no trigger fires on insert),
\* then the activity log.
CreateItem(i, stock, min, logOk) ==
  /\ inventory[i] = NoItem
  /\ inventory' = [inventory EXCEPT ![i] = InventoryRow(stock, min)]
  /\ activity_logs' = log_activity(activity_logs, LogRow("CREATE", i), logOk)
  /\ UNCHANGED <<low_stock_alerts, ordVars, feedVars, staffVars, screenVars, modalVars, creationVars>>

\* handleSubmit, edit branch: UPDATE inventory SET ... WHERE id = selectedItem.id,
\* with the AFTER UPDATE row trigger in the same transaction, then the activity log.
UpdateItem(i, stock, min, logOk) ==
  LET old == inventory[i]
      new == InventoryRow(stock, min)
      after == IF inventory_low_stock_check(old, new)
               THEN check_low_stock(low_stock_alerts, i, new)
               ELSE low_stock_alerts
  IN /\ old # NoItem
     /\ BagCardinality(after) <= MaxAlerts
     /\ inventory' = [inventory EXCEPT ![i] = new]
     /\ low_stock_alerts' = after
     /\ activity_logs' = log_activity(activity_logs, LogRow("UPDATE", i), logOk)
     /\ UNCHANGED <<ordVars, feedVars, staffVars, screenVars, modalVars, creationVars>>

\* Acknowledging an alert: UPDATE low_stock_alerts SET is_acknowledged = true
\* on one row; the row is kept.
AcknowledgeAlert(a) ==
  /\ BagIn(a, low_stock_alerts)
  /\ a.is_acknowledged = FALSE
  /\ low_stock_alerts' =
       (low_stock_alerts (-) SetToBag({a}))
         (+) SetToBag({[a EXCEPT !.is_acknowledged = TRUE]})
  /\ UNCHANGED <<inventory, activity_logs, ordVars, feedVars, staffVars, screenVars, modalVars, creationVars>>

\* ------------------------------------------------------------------ orders: the store

\* CHECK (status IN ('pending', 'preparing', 'ready', 'completed', 'cancelled'))
Statuses == {"pending", "preparing", "ready", "completed", "cancelled"}

OrderRow(status) == [exists |-> TRUE, status |-> status]

\* One row of order_actions; the nullable amount is the empty set or one number.
ActionRow(o, type, user, amount) ==
  [order_id |-> o, action_type |-> type, action_by |-> user, amount |-> amount]

\* The row log_order_activity writes: 'order_status_changed' with
\* jsonb_build_object('order_id', 'old_status', 'new_status').
StatusChangedRow(o, old, new) ==
  [action |-> "order_status_changed", entity |-> o, old_status |-> old, new_status |-> new]

\* log_order_activity() on UPDATE without its status comparison.
log_order_activity_always(logs, o, old, new) ==
  logs (+) SetToBag({StatusChangedRow(o, old, new)})

\* log_order_activity(), TG_OP = 'UPDATE': the log after the row trigger ran.
log_order_activity(logs, o, old, new) ==
  IF old # new THEN logs (+) SetToBag({StatusChangedRow(o, old, new)}) ELSE logs

\* Does the UPDATE's row trigger insert into activity_logs for this change?
TriggerLogs(o, old, new) ==
  log_order_activity(EmptyBag, o, old, new) # EmptyBag

\* The UPDATE's error without the CHECK on orders.status.
UpdateError_noCheck(o, newStatus, trigOk, fault) ==
  IF fault THEN "store_error"
  ELSE IF ~orders[o].exists THEN "none"
  ELSE IF TriggerLogs(o, orders[o].status, newStatus)
          /\ (~trigOk \/ BagCardinality(activity_logs) >= MaxOrderLogs)
       THEN "activity_log_failed"
  ELSE "none"

\* The error the store returns for UPDATE orders SET status = newStatus WHERE
\* id = o ("none": accepted, also when no row matches). fault: the statement
\* fails for a reason outside the model (network, permission). trigOk: the
\* trigger's INSERT INTO activity_logs succeeds; log_order_activity has no
\* exception handler, so its failure aborts the whole statement.
UpdateError(o, newStatus, trigOk, fault) ==
  IF fault THEN "store_error"
  ELSE IF ~orders[o].exists THEN "none"
  ELSE IF newStatus \notin Statuses THEN "check_violation"
  ELSE IF TriggerLogs(o, orders[o].status, newStatus)
          /\ (~trigOk \/ BagCardinality(activity_logs) >= MaxOrderLogs)
       THEN "activity_log_failed"
  ELSE "none"

\* The error the store returns for INSERT INTO order_actions (order_id
\* REFERENCES orders(id)).
InsertActionError(o, fault) ==
  IF fault \/ BagCardinality(order_actions) >= MaxActions THEN "store_error"
  ELSE IF ~orders[o].exists THEN "foreign_key_violation"
  ELSE "none"

\* SELECT * FROM orders, as the screen keeps it: the status of each order.
LoadedOrders == [o \in OrderIds |-> IF orders[o].exists THEN orders[o].status ELSE "absent"]

\* ------------------------------------------------------------------ orders: OrderManagement

\* The screen a session shows: the OrderManagement component whose approve
\* writes 'preparing' (A) or the one whose approve writes 'approved' (B).
Screen(s) == IF s = "s1" THEN "A" ELSE "B"

\* user.id of the session's signed-in user.
SessionUser(s) == IF s = "s1" THEN "u1" ELSE "u2"

NoSelection == [id |-> "none", status |-> "none"]
NoCall == [orderId |-> "none", newStatus |-> "none", actionType |-> "none"]

\* The component after mount and its first loadOrders(). pc is the position of
\* the session: idle, dialog (the action dialog is open), update / insert / log
\* (performOrderAction awaits that statement), reload (the try block showed
\* "Action Completed" and awaits loadOrders), failed (the catch block showed
\* "Action Failed"; error is what it caught). selectedOrder and actionType are
\* read only by the dialog's confirm button and are kept while the dialog is open.
Mounted(view) ==
  [pc |-> "idle", orders |-> view, isActionDialogOpen |-> FALSE,
   selectedOrder |-> NoSelection, actionType |-> "", actionAmount |-> "",
   call |-> NoCall, error |-> "none"]

\* The notice a session shows.
Toast(m) ==
  CASE m.pc = "reload" -> "Action Completed"
    [] m.pc = "failed" -> "Action Failed"
    [] OTHER -> "none"

\* parseFloat of the amount field.
parseFloat(str) == IF str = "50" THEN 50 ELSE 0

\* amount: actionAmount ? parseFloat(actionAmount) : null
AmountColumn(actionAmount) == IF actionAmount = "" THEN {} ELSE {parseFloat(actionAmount)}

\* handleQuickAction with the ready case writing 'completed'.
QuickTarget_readyCompletes(screen, action) ==
  CASE action = "approve" -> (IF screen = "A" THEN "preparing" ELSE "approved")
    [] action = "preparing" -> "preparing"
    [] action = "ready" -> "completed"
    [] action = "complete" -> "completed"

\* handleQuickAction: the status each quick action writes.
QuickTarget(screen, action) ==
  CASE action = "approve" -> (IF screen = "A" THEN "preparing" ELSE "approved")
    [] action = "preparing" -> "preparing"
    [] action = "ready" -> "ready"
    [] action = "complete" -> "completed"

\* The quick-action buttons rendered for an order shown with this status.
QuickButtons(screen, status) ==
  CASE status = "pending" -> {"approve"}
    [] status = "approved" -> (IF screen = "B" THEN {"preparing"} ELSE {})
    [] status = "preparing" -> {"ready"}
    [] status = "ready" -> {"complete"}
    [] OTHER -> {}

\* The buttons that open the action dialog for an order shown with this status.
DialogButtons(status) ==
  CASE status = "pending" -> {"cancel"}
    [] status \in {"ready", "completed"} -> {"refund", "discount"}
    [] OTHER -> {}

\* performOrderAction's catch block: the failure notice.
AfterFailure(m, err) ==
  [m EXCEPT !.pc = "failed", !.error = err]

\* performOrderAction's finally block after a failure: nothing was closed or
\* cleared, an open dialog is still open.
Finally(s) ==
  /\ mgmt[s].pc = "failed"
  /\ mgmt' = [mgmt EXCEPT ![s].pc = IF mgmt[s].isActionDialogOpen THEN "dialog" ELSE "idle",
                          ![s].call = NoCall, ![s].error = "none"]
  /\ UNCHANGED <<orders, order_actions, activity_logs, invVars, feedVars, staffVars, screenVars, creationVars, modalVars>>

\* The page is (re)loaded: the component mounts and loads the orders.
Mount(s) ==
  /\ mgmt[s].pc \in {"idle", "dialog"}
  /\ mgmt' = [mgmt EXCEPT ![s] = Mounted(LoadedOrders)]
  /\ UNCHANGED <<orders, order_actions, activity_logs, invVars, feedVars, staffVars, screenVars, creationVars, modalVars>>

\* A quick-action button of order o is clicked: handleQuickAction calls
\* performOrderAction, which issues the status update. (The selection and action
\* type it also records are read only by the dialog, which sets them when it opens.)
QuickAction(s, o, action) ==
  LET m == mgmt[s]
  IN /\ m.pc = "idle"
     /\ m.orders[o] # "absent"
     /\ action \in QuickButtons(Screen(s), m.orders[o])
     /\ mgmt' = [mgmt EXCEPT ![s] =
          [m EXCEPT !.pc = "update",
                    !.call = [orderId |-> o, newStatus |-> QuickTarget(Screen(s), action),
                              actionType |-> action]]]
     /\ UNCHANGED <<orders, order_actions, activity_logs, invVars, feedVars, staffVars, screenVars, creationVars, modalVars>>

\* Cancel, Refund or Discount of order o is clicked: the action dialog opens.
OpenDialog(s, o, action) ==
  LET m == mgmt[s]
  IN /\ m.pc = "idle"
     /\ m.orders[o] # "absent"
     /\ action \in DialogButtons(m.orders[o])
     /\ mgmt' = [mgmt EXCEPT ![s] =
          [m EXCEPT !.pc = "dialog", !.isActionDialogOpen = TRUE,
                    !.selectedOrder = [id |-> o, status |-> m.orders[o]],
                    !.actionType = action]]
     /\ UNCHANGED <<orders, order_actions, activity_logs, invVars, feedVars, staffVars, screenVars, creationVars, modalVars>>

\* The amount field of the dialog (shown for refund and discount) is edited.
TypeAmount(s, input) ==
  LET m == mgmt[s]
  IN /\ m.pc = "dialog"
     /\ m.actionType \in {"refund", "discount"}
     /\ m.actionAmount # input
     /\ mgmt' = [mgmt EXCEPT ![s].actionAmount = input]
     /\ UNCHANGED <<orders, order_actions, activity_logs, invVars, feedVars, staffVars, screenVars, creationVars, modalVars>>

\* The dialog is dismissed (onOpenChange): the fields keep what was typed.
CloseDialog(s) ==
  /\ mgmt[s].pc = "dialog"
  /\ mgmt' = [mgmt EXCEPT ![s].pc = "idle", ![s].isActionDialogOpen = FALSE,
                          ![s].selectedOrder = NoSelection, ![s].actionType = ""]
  /\ UNCHANGED <<orders, order_actions, activity_logs, invVars, feedVars, staffVars, screenVars, creationVars, modalVars>>

\* The dialog's confirm button: the status it passes to performOrderAction.
ConfirmTarget(actionType, selectedStatus) ==
  IF actionType = "cancel" THEN "cancelled" ELSE selectedStatus

\* Confirm is clicked: performOrderAction issues the status update.
Confirm(s) ==
  LET m == mgmt[s]
  IN /\ m.pc = "dialog"
     /\ mgmt' = [mgmt EXCEPT ![s] =
          [m EXCEPT !.pc = "update",
                    !.call = [orderId |-> m.selectedOrder.id,
                              newStatus |-> ConfirmTarget(m.actionType, m.selectedOrder.status),
                              actionType |-> m.actionType]]]
     /\ UNCHANGED <<orders, order_actions, activity_logs, invVars, feedVars, staffVars, screenVars, creationVars, modalVars>>

\* performOrderAction that goes on to the order_actions insert whatever the update returned.
AfterUpdate_ignoreError(m, err) ==
  [m EXCEPT !.pc = "insert"]

\* performOrderAction after the update returned: if (orderError) throw orderError.
AfterUpdate(m, err) ==
  IF err = "none" THEN [m EXCEPT !.pc = "insert"] ELSE AfterFailure(m, err)

\* The store executes the status update of performOrderAction, with the row
\* trigger log_order_activity in the same transaction.
StoreUpdate(s, trigOk, fault) ==
  LET c == mgmt[s].call
      o == c.orderId
      err == UpdateError(o, c.newStatus, trigOk, fault)
      applies == err = "none" /\ orders[o].exists
  IN /\ mgmt[s].pc = "update"
     /\ orders' = IF applies THEN [orders EXCEPT ![o].status = c.newStatus] ELSE orders
     /\ activity_logs' =
          IF applies THEN log_order_activity(activity_logs, o, orders[o].status, c.newStatus)
          ELSE activity_logs
     /\ mgmt' = [mgmt EXCEPT ![s] = AfterUpdate(mgmt[s], err)]
     /\ UNCHANGED <<order_actions, invVars, feedVars, staffVars, screenVars, creationVars, modalVars>>

\* performOrderAction that skips the order_actions insert.
InsertedActions_none(actions, row) ==
  actions

\* INSERT INTO order_actions of one row.
InsertedActions(actions, row) ==
  actions (+) SetToBag({row})

\* performOrderAction that goes on to the success notice whatever the insert returned.
AfterInsert_ignoreError(m, err) ==
  [m EXCEPT !.pc = "log"]

\* performOrderAction after the insert returned: if (actionError) throw actionError.
AfterInsert(m, err) ==
  IF err = "none" THEN [m EXCEPT !.pc = "log"] ELSE AfterFailure(m, err)

\* The store executes the order_actions insert of performOrderAction.
StoreInsertAction(s, fault) ==
  LET m == mgmt[s]
      c == m.call
      err == InsertActionError(c.orderId, fault)
      row == ActionRow(c.orderId, c.actionType, SessionUser(s), AmountColumn(m.actionAmount))
  IN /\ m.pc = "insert"
     /\ order_actions' = IF err = "none" THEN InsertedActions(order_actions, row) ELSE order_actions
     /\ mgmt' = [mgmt EXCEPT ![s] = AfterInsert(m, err)]
     /\ UNCHANGED <<orders, activity_logs, invVars, feedVars, staffVars, screenVars, creationVars, modalVars>>

\* The activity row performOrderAction writes: screen A inserts it with action
\* 'order_action', screen B calls log_activity with 'update'.
ClientLogRow(screen, c) ==
  LogRow(IF screen = "A" THEN "order_action" ELSE "update", c.orderId)

\* The store executes the activity-log write of performOrderAction; its result
\* is not looked at, then the success notice is shown.
StoreLogActivity(s, ok) ==
  LET m == mgmt[s]
  IN /\ m.pc = "log"
     /\ activity_logs' =
          IF ok /\ BagCardinality(activity_logs) < MaxOrderLogs
          THEN activity_logs (+) SetToBag({ClientLogRow(Screen(s), m.call)})
          ELSE activity_logs
     /\ mgmt' = [mgmt EXCEPT ![s].pc = "reload"]
     /\ UNCHANGED <<orders, order_actions, invVars, feedVars, staffVars, screenVars, creationVars, modalVars>>

\* The end of performOrderAction: loadOrders() (kept as it was if the select
\* fails), then the dialog is closed and its fields are cleared.
ReloadOrders(s, loadOk) ==
  LET m == mgmt[s]
  IN /\ m.pc = "reload"
     /\ mgmt' = [mgmt EXCEPT ![s] =
          [m EXCEPT !.pc = "idle",
                    !.call = NoCall,
                    !.orders = IF loadOk THEN LoadedOrders ELSE m.orders,
                    !.isActionDialogOpen = FALSE,
                    !.selectedOrder = NoSelection,
                    !.actionType = "",
                    !.actionAmount = ""]]
     /\ UNCHANGED <<orders, order_actions, activity_logs, invVars, feedVars, staffVars, screenVars, creationVars, modalVars>>

\* handleDeleteOrder of the order-details dialog: DELETE FROM orders (its
\* order_actions rows go with it, ON DELETE CASCADE), then the activity log.
DeleteOrder(o, logOk) ==
  /\ orders[o].exists
  /\ orders' = [orders EXCEPT ![o] = NoOrder]
  /\ order_actions' =
       [r \in {x \in BagToSet(order_actions) : x.order_id # o} |-> order_actions[r]]
  /\ activity_logs' =
       IF logOk /\ BagCardinality(activity_logs) < MaxOrderLogs
       THEN activity_logs (+) SetToBag({LogRow("DELETE", o)})
       ELSE activity_logs
  /\ UNCHANGED <<mgmt, invVars, feedVars, staffVars, screenVars, creationVars, modalVars>>

\* ------------------------------------------------------------------ orders: OrderDetailsModal

\* The order whose details the sales-history page opens.
ModalOrder == "o1"

\* user.id of the user signed in on the sales-history page.
ModalUser == "u1"

\* profiles.role values the staff page assigns.
Roles == {"admin", "cashier"}

\* What can be typed into the admin-password field.
PasswordInputs == {"", "admin123", "letmein"}

\* The statuses the edit form's Select offers.
StatusOptions(userRole) ==
  {"pending", "completed", "cancelled"} \cup (IF userRole = "admin" THEN {"void"} ELSE {})

\* The component's state when the page mounts it (closed). order and editedOrder
\* are kept by their status; request is the statement the component awaits
\* ("none", "update": an UPDATE of orders SET status = requestStatus, "log":
\* the log_activity call after a save).
ModalMounted ==
  [isOpen |-> FALSE, loading |-> FALSE, roleLoading |-> FALSE, userRole |-> "null",
   order |-> "null", editedOrder |-> "null", editing |-> FALSE,
   showVoidDialog |-> FALSE, adminPassword |-> "",
   request |-> "none", requestStatus |-> "none", requestBy |-> "none"]

\* The order view with its buttons is rendered and nothing is awaited.
ModalShown ==
  /\ modal.isOpen /\ ~modal.loading /\ modal.order # "null"
  /\ ~modal.showVoidDialog /\ modal.request = "none"

\* StaffManagement.updateRole: the profile's role is changed.
updateRole(newRole) ==
  /\ profiles[ModalUser] # newRole
  /\ profiles' = [profiles EXCEPT ![ModalUser] = newRole]
  /\ UNCHANGED <<modal, invVars, feedVars, staffVars, screenVars, creationVars, ordVars, activity_logs>>

\* handleViewOrder: the modal opens; its effect starts loadOrderDetails and loadUserRole.
handleViewOrder ==
  /\ ~modal.isOpen
  /\ modal.request = "none"
  /\ modal' = [modal EXCEPT !.isOpen = TRUE, !.loading = TRUE, !.roleLoading = TRUE]
  /\ UNCHANGED <<profiles, invVars, feedVars, staffVars, screenVars, creationVars, ordVars, activity_logs>>

\* handleCloseModal: the modal closes; the component stays mounted with its state.
handleCloseModal ==
  /\ modal.isOpen
  /\ ~modal.showVoidDialog
  /\ modal.request = "none"
  /\ modal' = [modal EXCEPT !.isOpen = FALSE]
  /\ UNCHANGED <<profiles, invVars, feedVars, staffVars, screenVars, creationVars, ordVars, activity_logs>>

\* loadOrderDetails returns: on an error (ok = FALSE, or no such row) nothing
\* but loading is set; otherwise order and editedOrder become the stored row.
loadOrderDetails(ok) ==
  /\ modal.loading
  /\ modal' =
       IF ok /\ orders[ModalOrder].exists
       THEN [modal EXCEPT !.loading = FALSE, !.order = orders[ModalOrder].status,
                          !.editedOrder = orders[ModalOrder].status]
       ELSE [modal EXCEPT !.loading = FALSE]
  /\ UNCHANGED <<profiles, invVars, feedVars, staffVars, screenVars, creationVars, ordVars, activity_logs>>

\* loadUserRole returns: userRole is set only when the select succeeded.
loadUserRole(ok) ==
  /\ modal.roleLoading
  /\ modal' = [modal EXCEPT !.roleLoading = FALSE,
                            !.userRole = IF ok THEN profiles[ModalUser] ELSE modal.userRole]
  /\ UNCHANGED <<profiles, invVars, feedVars, staffVars, screenVars, creationVars, ordVars, activity_logs>>

\* The edit button (setEditing(true)) and the X button (setEditing(false)).
SetEditing(on) ==
  /\ ModalShown
  /\ modal.editing # on
  /\ modal' = [modal EXCEPT !.editing = on]
  /\ UNCHANGED <<profiles, invVars, feedVars, staffVars, screenVars, creationVars, ordVars, activity_logs>>

\* The status Select of the edit form: onValueChange.
SelectStatus(value) ==
  /\ ModalShown
  /\ modal.editing
  /\ value \in StatusOptions(modal.userRole)
  /\ modal.editedOrder # value
  /\ modal' = [modal EXCEPT !.editedOrder = value]
  /\ UNCHANGED <<profiles, invVars, feedVars, staffVars, screenVars, creationVars, ordVars, activity_logs>>

\* handleSaveChanges up to its update: the UPDATE carrying editedOrder.status is sent.
handleSaveChanges ==
  /\ ModalShown
  /\ modal.editing
  /\ modal.editedOrder # "null"
  /\ modal' = [modal EXCEPT !.request = "update", !.requestStatus = modal.editedOrder,
                            !.requestBy = "save"]
  /\ UNCHANGED <<profiles, invVars, feedVars, staffVars, screenVars, creationVars, ordVars, activity_logs>>

\* performVoidOrder up to its update: UPDATE orders SET status = 'void' is sent.
performVoidOrder(m) ==
  [m EXCEPT !.request = "update", !.requestStatus = "void", !.requestBy = "void"]

\* handleVoidOrder: an admin's click voids at once, anyone else gets the password dialog.
handleVoidOrder ==
  /\ ModalShown
  /\ ~modal.editing
  /\ modal.order # "void"
  /\ modal' = IF modal.userRole = "admin" THEN performVoidOrder(modal)
              ELSE [modal EXCEPT !.showVoidDialog = TRUE]
  /\ UNCHANGED <<profiles, invVars, feedVars, staffVars, screenVars, creationVars, ordVars, activity_logs>>

\* The password field of the dialog is edited.
TypePassword(input) ==
  /\ modal.showVoidDialog
  /\ modal.adminPassword # input
  /\ modal' = [modal EXCEPT !.adminPassword = input]
  /\ UNCHANGED <<profiles, invVars, feedVars, staffVars, screenVars, creationVars, ordVars, activity_logs>>

\* The dialog's Cancel button: closes it and clears the field.
CancelVoidDialog ==
  /\ modal.showVoidDialog
  /\ modal' = [modal EXCEPT !.showVoidDialog = FALSE, !.adminPassword = ""]
  /\ UNCHANGED <<profiles, invVars, feedVars, staffVars, screenVars, creationVars, ordVars, activity_logs>>

\* handleAdminPasswordSubmit: an empty or wrong password only shows a notice,
\* the right one closes the dialog, clears the field and voids.
handleAdminPasswordSubmit ==
  /\ modal.showVoidDialog
  /\ modal.request = "none"
  /\ modal' =
       IF modal.adminPassword = "" THEN modal
       ELSE IF modal.adminPassword = "admin123"
       THEN performVoidOrder([modal EXCEPT !.showVoidDialog = FALSE, !.adminPassword = ""])
       ELSE modal
  /\ modal' # modal
  /\ UNCHANGED <<profiles, invVars, feedVars, staffVars, screenVars, creationVars, ordVars, activity_logs>>

\* The store executes the modal's UPDATE (with its row trigger); the component
\* then: after a void, closes on success and only shows a notice on an error;
\* after a save, goes on to log_activity on success and only shows a notice on
\* an error.
StoreModalUpdate(trigOk, fault) ==
  LET err == UpdateError(ModalOrder, modal.requestStatus, trigOk, fault)
      applies == err = "none" /\ orders[ModalOrder].exists
  IN /\ modal.request = "update"
     /\ orders' = IF applies THEN [orders EXCEPT ![ModalOrder].status = modal.requestStatus]
                  ELSE orders
     /\ activity_logs' =
          IF applies
          THEN log_order_activity(activity_logs, ModalOrder, orders[ModalOrder].status,
                                  modal.requestStatus)
          ELSE activity_logs
     /\ modal' =
          IF err # "none"
          THEN [modal EXCEPT !.request = "none", !.requestStatus = "none", !.requestBy = "none"]
          ELSE IF modal.requestBy = "void"
          THEN [modal EXCEPT !.request = "none", !.requestStatus = "none",
                             !.requestBy = "none", !.isOpen = FALSE]
          ELSE [modal EXCEPT !.request = "log"]
     /\ UNCHANGED <<profiles, invVars, feedVars, staffVars, screenVars, creationVars, order_actions, mgmt>>

\* The store executes the log_activity call of handleSaveChanges; then
\* setEditing(false) and loadOrderDetails() starts.
StoreModalLog(ok) ==
  /\ modal.request = "log"
  /\ activity_logs' =
       IF ok /\ BagCardinality(activity_logs) < MaxOrderLogs
       THEN activity_logs (+) SetToBag({LogRow("UPDATE", ModalOrder)})
       ELSE activity_logs
  /\ modal' = [modal EXCEPT !.request = "none", !.requestStatus = "none",
                            !.requestBy = "none", !.editing = FALSE, !.loading = TRUE]
  /\ UNCHANGED <<profiles, invVars, feedVars, staffVars, screenVars, creationVars, ordVars>>

\* The migration's sample data: one seeded item, no alert row; one pending order
\* placed by a customer; both order-management screens mounted; the sales-history
\* page of an admin mounted with its modal closed.
\* ------------------------------------------------------------------ checkout

MenuRow(price) == [exists |-> TRUE, price |-> price]

\* One line of a cart: the menu item with the price it was loaded with.
CartItem(id, price, quantity) == [id |-> id, price |-> price, quantity |-> quantity]

\* No submission under way.
NoSubmission == [orderNumber |-> NoNumber, orderId |-> "", total |-> 0, tax |-> 0]

\* A checkout component after mounting: loadMenuItems has filled menuItems.
CheckoutMounted(flow, menuItems) ==
  [flow |-> flow, pc |-> "idle", menuItems |-> menuItems, cart |-> <<>>,
   customerName |-> "", customerPhone |-> "", submission |-> NoSubmission]

\* The notice on the screen.
CheckoutToast(c) ==
  CASE c.pc = "done" -> "success"
    [] c.pc = "failed" -> "failure"
    [] c.pc = "missing" -> "Missing Information"
    [] c.pc = "empty" -> "Empty Cart"
    [] OTHER -> "none"

\* String.prototype.trim on the values of NameInputs.
trim(str) == IF str = " " THEN "" ELSE str

\* cart.reduce((total, item) => total + item.price * item.quantity, 0)
RECURSIVE calculateSubtotal(_)
calculateSubtotal(cart) ==
  IF cart = <<>> THEN 0
  ELSE Head(cart).price * Head(cart).quantity + calculateSubtotal(Tail(cart))

\* subtotal * 0.10 (POS) and subtotal * 0.12 (customer homepage). Prices are
\* whole pesos, so the tax is a whole number of centavos and DECIMAL(10,2)
\* stores it as computed.
calculateTax(flow, subtotal) ==
  IF flow = "pos" THEN (subtotal * 10) \div 100 ELSE (subtotal * 12) \div 100

\* The tax_amount the flow inserts: the customer menu sends none and the
\* column's default 0 applies.
TaxAmount(flow, cart) ==
  IF flow = "menu" THEN 0 ELSE calculateTax(flow, calculateSubtotal(cart))

\* The total_amount the flow inserts.
TotalAmount(flow, cart) ==
  IF flow = "menu" THEN calculateSubtotal(cart)
  ELSE calculateSubtotal(cart) + calculateTax(flow, calculateSubtotal(cart))

\* The first check of submitOrder looking at the name alone in both customer flows.
MissingInformation_nameOnly(c) ==
  CASE c.flow = "homepage" -> c.customerName = ""
    [] c.flow = "menu" -> trim(c.customerName) = ""
    [] OTHER -> FALSE

\* The first check of submitOrder: a required field is missing. processOrder
\* has no such check.
MissingInformation(c) ==
  CASE c.flow = "homepage" -> c.customerName = "" \/ c.customerPhone = ""
    [] c.flow = "menu" -> trim(c.customerName) = ""
    [] OTHER -> FALSE

\* The status the flow inserts an order with.
InsertedStatus(flow) == IF flow = "pos" THEN "completed" ELSE "pending"

CheckoutOrderRow(orderNumber, total, tax, status) ==
  [order_number |-> orderNumber, total_amount |-> total, tax_amount |-> tax, status |-> status]

\* cart.map: total_price written as the unit price alone.
orderItems_unitPriceOnly(orderId, cart) ==
  {[order_id |-> orderId, menu_item_id |-> cart[i].id, quantity |-> cart[i].quantity,
    unit_price |-> cart[i].price, total_price |-> cart[i].price] : i \in 1..Len(cart)}

\* cart.map(item => ({order_id, menu_item_id, quantity, unit_price: item.price,
\* total_price: item.price * item.quantity})): one row per cart line, and the
\* lines of a cart have different ids.
orderItems(orderId, cart) ==
  {[order_id |-> orderId, menu_item_id |-> cart[i].id, quantity |-> cart[i].quantity,
    unit_price |-> cart[i].price, total_price |-> cart[i].price * cart[i].quantity]
     : i \in 1..Len(cart)}

CartIds(cart) == {cart[i].id : i \in 1..Len(cart)}

\* The component of a flow is opened: it mounts and loads the available menu items.
OpenFlow(flow) ==
  /\ checkout.pc = "idle"
  /\ Len(checkout_orders) < MaxOrders
  /\ checkout' = CheckoutMounted(flow, menu_items)
  /\ UNCHANGED <<menu_items, checkout_orders, order_items, sales_logs, genVars, activity_logs>>

\* The cart addToCart passes to setCart: one more of a line the cart has, or a
\* new line of quantity 1 at the end.
addedToCart(cart, id, price) ==
  IF id \in CartIds(cart)
  THEN [i \in 1..Len(cart) |->
          IF cart[i].id = id THEN [cart[i] EXCEPT !.quantity = @ + 1] ELSE cart[i]]
  ELSE Append(cart, CartItem(id, price, 1))

\* updateQuantity that writes the quantity 0 into the line.
updatedQuantity_keepsZero(cart, id, newQuantity) ==
  [i \in 1..Len(cart) |->
     IF cart[i].id = id THEN [cart[i] EXCEPT !.quantity = newQuantity] ELSE cart[i]]

\* The cart updateQuantity passes to setCart: quantity 0 removes the line.
updatedQuantity(cart, id, newQuantity) ==
  IF newQuantity = 0
  THEN SelectSeq(cart, LAMBDA item : item.id # id)
  ELSE [i \in 1..Len(cart) |->
          IF cart[i].id = id THEN [cart[i] EXCEPT !.quantity = newQuantity] ELSE cart[i]]

\* addToCart, the screen having re-rendered since the last change of the cart.
addToCart(id) ==
  /\ checkout.pc = "idle"
  /\ Len(checkout_orders) < MaxOrders
  /\ checkout.menuItems[id].exists
  /\ \A i \in 1..Len(checkout.cart) : checkout.cart[i].id = id => checkout.cart[i].quantity < MaxQuantity
  /\ checkout' = [checkout EXCEPT !.cart = addedToCart(@, id, checkout.menuItems[id].price)]
  /\ UNCHANGED <<menu_items, checkout_orders, order_items, sales_logs, genVars, activity_logs>>

\* updateQuantity from the cart's minus and plus buttons, the screen having
\* re-rendered since the last change of the cart.
updateQuantity(id, newQuantity) ==
  /\ checkout.pc = "idle"
  /\ Len(checkout_orders) < MaxOrders
  /\ \E i \in 1..Len(checkout.cart) :
       /\ checkout.cart[i].id = id
       /\ newQuantity \in {checkout.cart[i].quantity - 1, checkout.cart[i].quantity + 1}
  /\ newQuantity <= MaxQuantity
  /\ checkout' = [checkout EXCEPT !.cart = updatedQuantity(@, id, newQuantity)]
  /\ UNCHANGED <<menu_items, checkout_orders, order_items, sales_logs, genVars, activity_logs>>

\* A checkout screen after mounting, seen render by render: cart is the state
\* setCart last wrote, rendered the cart the handlers of the last render closed over.
ScreenMounted(flow) == [flow |-> flow, cart |-> <<>>, rendered |-> <<>>]

\* A checkout screen is opened.
OpenScreen(flow) ==
  /\ cartScreen # ScreenMounted(flow)
  /\ cartScreen' = ScreenMounted(flow)
  /\ UNCHANGED <<invVars, feedVars, staffVars, ordVars, modalVars, creationVars, activity_logs>>

\* The screen re-renders with the cart last set.
Render ==
  /\ cartScreen.rendered # cartScreen.cart
  /\ cartScreen' = [cartScreen EXCEPT !.rendered = cartScreen.cart]
  /\ UNCHANGED <<invVars, feedVars, staffVars, ordVars, modalVars, creationVars, activity_logs>>

\* A menu item's add button is clicked: addToCart works on the cart of the
\* last render.
ClickAdd(id) ==
  /\ menu_items[id].exists
  /\ \A i \in 1..Len(cartScreen.rendered) :
       cartScreen.rendered[i].id = id => cartScreen.rendered[i].quantity < MaxQuantity
  /\ cartScreen' = [cartScreen EXCEPT !.cart = addedToCart(cartScreen.rendered, id, menu_items[id].price)]
  /\ UNCHANGED <<invVars, feedVars, staffVars, ordVars, modalVars, creationVars, activity_logs>>

\* The minus (delta -1) or plus (delta 1) button of a rendered cart line is
\* clicked: updateQuantity(item.id, item.quantity + delta) on the cart of the
\* last render.
ClickQuantity(i, delta) ==
  /\ i \in 1..Len(cartScreen.rendered)
  /\ cartScreen.rendered[i].quantity + delta <= MaxQuantity
  /\ cartScreen' = [cartScreen EXCEPT !.cart =
       updatedQuantity(cartScreen.rendered, cartScreen.rendered[i].id, cartScreen.rendered[i].quantity + delta)]
  /\ UNCHANGED <<invVars, feedVars, staffVars, ordVars, modalVars, creationVars, activity_logs>>

\* The POS's Clear Cart button: setCart([]).
ClearCart ==
  /\ cartScreen.flow = "pos"
  /\ cartScreen.rendered # <<>>
  /\ cartScreen' = [cartScreen EXCEPT !.cart = <<>>]
  /\ UNCHANGED <<invVars, feedVars, staffVars, ordVars, modalVars, creationVars, activity_logs>>

\* The name field of the form.
TypeCustomerName(value) ==
  /\ checkout.pc = "idle"
  /\ Len(checkout_orders) < MaxOrders
  /\ checkout' = [checkout EXCEPT !.customerName = value]
  /\ UNCHANGED <<menu_items, checkout_orders, order_items, sales_logs, genVars, activity_logs>>

\* The phone field, which only the customer homepage has.
TypeCustomerPhone(value) ==
  /\ checkout.pc = "idle"
  /\ Len(checkout_orders) < MaxOrders
  /\ checkout.flow = "homepage"
  /\ checkout' = [checkout EXCEPT !.customerPhone = value]
  /\ UNCHANGED <<menu_items, checkout_orders, order_items, sales_logs, genVars, activity_logs>>

\* ------------------------------------------------------------------ order numbers

DigitChars == <<"0", "1", "2", "3", "4", "5", "6", "7", "8", "9">>

\* n::TEXT for a natural number: its decimal digits, one character each.
RECURSIVE ToText(_)
ToText(n) ==
  IF n < 10 THEN <<DigitChars[n + 1]>>
  ELSE ToText(n \div 10) \o <<DigitChars[(n % 10) + 1]>>

\* PostgreSQL's LPAD(str, length, fill): fills on the left up to length; a
\* string longer than length is cut to its first length characters.
RECURSIVE LPAD(_, _, _)
LPAD(str, length, fill) ==
  IF Len(str) >= length THEN SubSeq(str, 1, length)
  ELSE LPAD(<<fill>> \o str, length, fill)

\* 'ORD-' || TO_CHAR(NOW(), 'YYYYMMDD') || '-' || LPAD(NEXTVAL('order_sequence')::TEXT, 4, '0')
\* with NOW() on the given day and NEXTVAL returning nextval.
order_num(day, nextval) ==
  <<"O", "R", "D", "-">> \o ToText(day) \o <<"-">> \o LPAD(ToText(nextval), 4, "0")

\* The unqualified name order_sequence resolves under the function's
\* search_path: the sequence lives in schema public, and under
\* SET search_path = '' only pg_catalog is searched.
SequenceResolves == fn_search_path = "public"

\* One call of generate_order_number(): NEXTVAL is atomic, so concurrent calls
\* are calls in some order. A call that cannot resolve the sequence raises
\* "relation order_sequence does not exist" and leaves the sequence alone.
generate_order_number ==
  /\ Len(issued) < MaxCalls
  /\ IF SequenceResolves
     THEN /\ order_sequence' = order_sequence + 1
          /\ issued' = Append(issued, [day |-> today,
                                       value |-> order_num(Days[today], order_sequence + 1)])
     ELSE UNCHANGED <<order_sequence, issued>>
  /\ UNCHANGED <<fn_search_path, today>>

\* Midnight passes.
NextDay ==
  /\ today < Len(Days)
  /\ today' = today + 1
  /\ UNCHANGED <<order_sequence, fn_search_path, issued>>

\* Migration 20250807134553: CREATE OR REPLACE FUNCTION generate_order_number
\* ... SET search_path = ''.
ApplySearchPathMigration ==
  /\ fn_search_path = "public"
  /\ fn_search_path' = ""
  /\ UNCHANGED <<order_sequence, today, issued>>

\* The order number the POS and the customer homepage build on the client.
ClientOrderNumber(flow, day, tail, tag) ==
  IF flow = "pos" THEN <<"O", "R", "D", "-">> \o ToText(day) \o <<"-">> \o tail
  ELSE <<"O", "R", "D", "-">> \o ToText(day) \o tail \o <<"-">> \o tag

\* The client part of submitOrder and processOrder, up to the first await:
\* the checks, then the totals and, in the POS and the customer homepage, the
\* order number.
Submit(tail, tag) ==
  /\ checkout.pc = "idle"
  /\ Len(checkout_orders) < MaxOrders
  /\ checkout' =
       IF MissingInformation(checkout) THEN [checkout EXCEPT !.pc = "missing"]
       ELSE IF checkout.cart = <<>> THEN [checkout EXCEPT !.pc = "empty"]
       ELSE [checkout EXCEPT
               !.pc = IF checkout.flow = "menu" THEN "number" ELSE "order",
               !.submission =
                 [orderNumber |-> IF checkout.flow = "menu" THEN NoNumber
                                  ELSE ClientOrderNumber(checkout.flow, Days[today], tail, tag),
                  orderId |-> "",
                  total |-> TotalAmount(checkout.flow, checkout.cart),
                  tax |-> TaxAmount(checkout.flow, checkout.cart)]]
  /\ UNCHANGED <<menu_items, checkout_orders, order_items, sales_logs, genVars, activity_logs>>

\* The catch block: the failure notice; the cart and the form stay.
CheckoutFailed(c) == [c EXCEPT !.pc = "failed"]

\* The end of the try block: the success notice, the cart and the form are reset.
CheckoutSucceeded(c) ==
  [c EXCEPT !.pc = "done", !.cart = <<>>, !.customerName = "", !.customerPhone = ""]

\* The customer menu's rpc('generate_order_number') and the check of its error.
StoreGenerateNumber ==
  /\ checkout.pc = "number"
  /\ generate_order_number
  /\ checkout' =
       IF SequenceResolves
       THEN [checkout EXCEPT !.pc = "order",
                             !.submission.orderNumber = order_num(Days[today], order_sequence + 1)]
       ELSE CheckoutFailed(checkout)
  /\ UNCHANGED <<menu_items, checkout_orders, order_items, sales_logs, activity_logs>>

\* The order_number column of the orders the staff screens work on: they were
\* placed through the customer homepage on the first day.
order_number ==
  [o \in OrderIds |-> ClientOrderNumber("homepage", Days[1], <<"0", "4", "1", "7">>, <<"A", "B", "C", "D">>)]

\* SELECT order_number FROM orders: the numbers of all stored orders.
StoredNumbers ==
  {checkout_orders[i].order_number : i \in 1..Len(checkout_orders)}
    \cup {order_number[o] : o \in {x \in OrderIds : orders[x].exists}}

\* The INSERT's error without the UNIQUE constraint on order_number.
InsertOrderError_noUnique(orderNumber, trigOk, fault) ==
  IF fault THEN "store_error"
  ELSE IF ~trigOk THEN "activity_log_failed"
  ELSE "none"

\* The error the store returns for INSERT INTO orders: order_number is UNIQUE,
\* and the row trigger log_order_activity writes the 'order_created' log row
\* in the same statement (trigOk: that write succeeds).
InsertOrderError(orderNumber, trigOk, fault) ==
  IF fault THEN "store_error"
  ELSE IF orderNumber \in StoredNumbers THEN "unique_violation"
  ELSE IF ~trigOk THEN "activity_log_failed"
  ELSE "none"

\* submitOrder after the order insert that ignores its error.
AfterInsertOrder_ignoreError(c, err, id) ==
  [c EXCEPT !.pc = "items", !.submission.orderId = id]

\* submitOrder after the order insert: if (orderError) throw orderError.
AfterInsertOrder(c, err, id) ==
  IF err # "none" THEN CheckoutFailed(c)
  ELSE [c EXCEPT !.pc = "items", !.submission.orderId = id]

\* INSERT INTO orders ... RETURNING, with its trigger, and the client's next step.
StoreInsertOrder(trigOk, fault) ==
  LET c == checkout
      err == InsertOrderError(c.submission.orderNumber, trigOk, fault)
      id == NewOrderIds[Len(checkout_orders) + 1]
  IN /\ c.pc = "order"
     /\ IF err = "none"
        THEN /\ checkout_orders' = Append(checkout_orders,
                   CheckoutOrderRow(c.submission.orderNumber, c.submission.total,
                                    c.submission.tax, InsertedStatus(c.flow)))
             /\ activity_logs' = activity_logs (+) SetToBag({LogRow("order_created", id)})
        ELSE UNCHANGED <<checkout_orders, activity_logs>>
     /\ checkout' = AfterInsertOrder(c, err, id)
     /\ UNCHANGED <<menu_items, order_items, sales_logs, genVars>>

\* The error the store returns for INSERT INTO order_items: menu_item_id
\* REFERENCES menu_items(id).
InsertItemsError(cart, fault) ==
  IF fault THEN "store_error"
  ELSE IF \E i \in 1..Len(cart) : ~menu_items[cart[i].id].exists THEN "foreign_key_violation"
  ELSE "none"

\* After the items insert: if (itemsError) throw itemsError; then the flow's
\* next await, or the end of the try block in the customer menu.
AfterInsertItems(c, err) ==
  IF err # "none" THEN CheckoutFailed(c)
  ELSE CASE c.flow = "pos" -> [c EXCEPT !.pc = "sales_log"]
         [] c.flow = "homepage" -> [c EXCEPT !.pc = "activity_log"]
         [] OTHER -> CheckoutSucceeded(c)

\* INSERT INTO order_items: all rows of the cart or none.
StoreInsertItems(fault) ==
  LET c == checkout
      err == InsertItemsError(c.cart, fault)
  IN /\ c.pc = "items"
     /\ order_items' = IF err = "none"
                       THEN order_items (+) SetToBag(orderItems(c.submission.orderId, c.cart))
                       ELSE order_items
     /\ checkout' = AfterInsertItems(c, err)
     /\ UNCHANGED <<menu_items, checkout_orders, sales_logs, genVars, activity_logs>>

\* processOrder: INSERT INTO sales_logs; the result is not looked at.
StoreSalesLog(ok) ==
  /\ checkout.pc = "sales_log"
  /\ sales_logs' = IF ok
                   THEN sales_logs (+) SetToBag({[action |-> "sale_completed",
                                                  order_id |-> checkout.submission.orderId,
                                                  amount |-> checkout.submission.total]})
                   ELSE sales_logs
  /\ checkout' = [checkout EXCEPT !.pc = "activity_log"]
  /\ UNCHANGED <<menu_items, checkout_orders, order_items, genVars, activity_logs>>

\* rpc('log_activity') of the POS and the customer homepage; the result is not
\* looked at, and the try block ends.
StoreCheckoutLog(ok) ==
  /\ checkout.pc = "activity_log"
  /\ activity_logs' = IF ok
                      THEN activity_logs (+) SetToBag({LogRow(
                             IF checkout.flow = "pos" THEN "CREATE" ELSE "create",
                             checkout.submission.orderId)})
                      ELSE activity_logs
  /\ checkout' = CheckoutSucceeded(checkout)
  /\ UNCHANGED <<menu_items, checkout_orders, order_items, sales_logs, genVars>>

\* The finally block has run and the notice has gone.
FinishCheckout ==
  /\ checkout.pc \in {"done", "failed", "missing", "empty"}
  /\ checkout' = [checkout EXCEPT !.pc = "idle", !.submission = NoSubmission]
  /\ UNCHANGED <<menu_items, checkout_orders, order_items, sales_logs, genVars, activity_logs>>

\* Menu management, handleSubmit in edit mode: UPDATE menu_items SET price, then
\* the activity log.
UpdateMenuPrice(id, price, logOk) ==
  /\ menu_items[id].exists
  /\ menu_items[id].price # price
  /\ menu_items' = [menu_items EXCEPT ![id].price = price]
  /\ activity_logs' = log_activity(activity_logs, LogRow("UPDATE", id), logOk)
  /\ UNCHANGED <<checkout_orders, order_items, sales_logs, checkout, genVars>>

\* Menu management, handleDelete: DELETE FROM menu_items; order_items.menu_item_id
\* is ON DELETE CASCADE. Then the activity log.
DeleteMenuItem(id, logOk) ==
  /\ menu_items[id].exists
  /\ menu_items' = [menu_items EXCEPT ![id] = NoItem]
  /\ order_items' = [r \in {x \in BagToSet(order_items) : x.menu_item_id # id} |-> CopiesIn(r, order_items)]
  /\ activity_logs' = log_activity(activity_logs, LogRow("DELETE", id), logOk)
  /\ UNCHANGED <<checkout_orders, sales_logs, checkout, genVars>>

\* The generator after the first migrations with the sequence at the given
\* value, the sample menu, no order placed yet and the POS open.
InitCreation(start) ==
  /\ order_sequence = start
  /\ fn_search_path = "public"
  /\ today = 1
  /\ issued = <<>>
  /\ menu_items = [m \in MenuIds |-> IF m = "m1" THEN MenuRow(10000) ELSE MenuRow(5000)]
  /\ checkout_orders = <<>>
  /\ order_items = EmptyBag
  /\ sales_logs = EmptyBag
  /\ checkout = CheckoutMounted("pos", menu_items)
  /\ cartScreen = ScreenMounted("pos")

\* ------------------------------------------------------------------ staff management

\* user_id of the accounts that can sign in.
Users == {"u1", "u2"}

\* The roles the staff page's buttons assign.
StaffRoles == {"admin", "manager", "cashier"}

\* The page's list before loadProfiles() has answered: useState([]).
NoProfiles == [p \in Users |-> "none"]

\* The StaffManagement page right after user u opened it: loadProfiles() is in
\* flight. hidesOwn: the page is the one that renders no role button on the
\* signed-in user's own row (user?.id !== profile.user_id); the other page
\* renders the buttons on every row.
StaffMounted(u, hidesOwn) ==
  [user |-> u, hidesOwn |-> hidesOwn, profiles |-> NoProfiles, pc |-> "load",
   call |-> [userId |-> "none", newRole |-> "none"], toast |-> "none"]

\* auth.role() of a request a signed-in user sends.
AuthRole(u) == IF u \in Users THEN "authenticated" ELSE "anon"

\* A policy that lets a user update only the own profile: auth.uid() = user_id.
UpdatePolicy_ownProfile(u, p) == u = p

\* CREATE POLICY "Users can update any profile" ON public.profiles FOR UPDATE
\* USING (auth.role() = 'authenticated'): may user u update the profile of p?
UpdatePolicy(u, p) == AuthRole(u) = "authenticated"

\* User u opens the staff page (either of the two).
StaffMount(u, hidesOwn) ==
  /\ staff.pc = "idle"
  /\ staff' = StaffMounted(u, hidesOwn)
  /\ UNCHANGED <<invVars, feedVars, screenVars, ordVars, modalVars, creationVars, activity_logs>>

\* loadProfiles(): the select answers; on an error the list is kept.
loadProfiles(ok) ==
  /\ staff.pc = "load"
  /\ staff' = [staff EXCEPT !.pc = "idle",
                            !.profiles = IF ok THEN profiles ELSE @,
                            !.toast = IF ok THEN @ ELSE "Failed to load staff profiles"]
  /\ UNCHANGED <<invVars, feedVars, screenVars, ordVars, modalVars, creationVars, activity_logs>>

\* The role buttons rendered on the row of profile p.
RoleButtons(p) ==
  IF staff.profiles[p] = "none" \/ (staff.hidesOwn /\ staff.user = p) THEN {}
  ELSE StaffRoles \ {staff.profiles[p]}

\* A role button is clicked: updateRole(profile.user_id, newRole) sends its update.
ClickRole(p, newRole) ==
  /\ staff.pc = "idle"
  /\ newRole \in RoleButtons(p)
  /\ staff' = [staff EXCEPT !.pc = "update", !.call = [userId |-> p, newRole |-> newRole]]
  /\ UNCHANGED <<invVars, feedVars, screenVars, ordVars, modalVars, creationVars, activity_logs>>

\* The store executes UPDATE profiles SET role = newRole WHERE user_id = userId
\* under the row policy (a row the policy hides is skipped without an error),
\* and updateRole goes on: the error notice, or the success notice and loadProfiles().
StoreUpdateRole(fault) ==
  LET c == staff.call
  IN /\ staff.pc = "update"
     /\ profiles' = IF ~fault /\ UpdatePolicy(staff.user, c.userId)
                    THEN [profiles EXCEPT ![c.userId] = c.newRole]
                    ELSE profiles
     /\ staff' = IF fault
                 THEN [staff EXCEPT !.pc = "idle", !.toast = "Failed to update role"]
                 ELSE [staff EXCEPT !.pc = "load", !.toast = "Role updated successfully"]
     /\ UNCHANGED <<modal, invVars, feedVars, screenVars, ordVars, creationVars, activity_logs>>

\* ------------------------------------------------------------------ orders: realtime feed

\* The OrderManagement screen right after its mount effect: the channel is
\* subscribed, the mount's own loadOrders() is still in flight, nothing has been
\* inserted since. table: the rows inserted into public.orders since then, the
\* id being the position; channel: the INSERT payloads not yet handed to the
\* callback; selects: the loadOrders() queries sent and not yet executed;
\* responses: the query results on their way back; orders: the ids in the
\* screen's order list; toasts: the ids a new-order notice was shown for;
\* loadError: some loadOrders() of the screen got an error back.
Subscribed ==
  [table |-> <<>>, channel |-> <<>>, selects |-> 1, responses |-> EmptyBag,
   orders |-> {}, toasts |-> {}, loadError |-> FALSE]

\* payload.new of a postgres_changes INSERT event.
Payload(id, status) == [id |-> id, status |-> status]

\* A checkout flow inserts an order; the store publishes the INSERT on the channel.
PublishInsert(flow) ==
  LET id == Len(feed.table) + 1
  IN /\ Len(feed.table) < MaxInserts
     /\ feed' = [feed EXCEPT !.table = Append(@, InsertedStatus(flow)),
                             !.channel = Append(@, Payload(id, InsertedStatus(flow)))]
     /\ UNCHANGED <<invVars, staffVars, screenVars, ordVars, modalVars, creationVars, activity_logs>>

\* The subscription callback: if (payload.new.status === 'pending') toast(...).
NotifiesNewOrder(payload) == payload.status = "pending"

\* The subscription callback runs for the next payload: loadOrders() sends its
\* query, then the notice is shown for a pending order.
OnInsert ==
  LET payload == Head(feed.channel)
  IN /\ feed.channel # <<>>
     /\ feed' = [feed EXCEPT !.channel = Tail(@),
                             !.selects = @ + 1,
                             !.toasts = IF NotifiesNewOrder(payload) THEN @ \cup {payload.id} ELSE @]
     /\ UNCHANGED <<invVars, staffVars, screenVars, ordVars, modalVars, creationVars, activity_logs>>

\* The result of loadOrders()'s select over the rows the table holds.
SelectResult(table, ok) ==
  IF ok THEN [error |-> FALSE, data |-> 1..Len(table)] ELSE [error |-> TRUE, data |-> {}]

\* The store executes one of the loadOrders() queries in flight.
StoreSelectOrders(ok) ==
  /\ feed.selects > 0
  /\ feed' = [feed EXCEPT !.selects = @ - 1,
                          !.responses = @ (+) SetToBag({SelectResult(feed.table, ok)})]
  /\ UNCHANGED <<invVars, staffVars, screenVars, ordVars, modalVars, creationVars, activity_logs>>

\* loadOrders() after its await: if (!error && data) setOrders(data).
setOrders(list, r) == IF ~r.error THEN r.data ELSE list

\* One of the results in flight arrives (in any order) and loadOrders() resumes.
ResolveLoadOrders(r) ==
  /\ r \in BagToSet(feed.responses)
  /\ feed' = [feed EXCEPT !.responses = @ (-) SetToBag({r}),
                          !.orders = setOrders(@, r),
                          !.loadError = @ \/ r.error]
  /\ UNCHANGED <<invVars, staffVars, screenVars, ordVars, modalVars, creationVars, activity_logs>>

\* The staff-side tables and screens after construction.
InitStaff ==
  /\ inventory = [i \in Items |-> IF i = "inv1" THEN InventoryRow(20, 10) ELSE NoItem]
  /\ low_stock_alerts = EmptyBag
  /\ activity_logs = EmptyBag
  /\ orders = [o \in OrderIds |-> OrderRow("pending")]
  /\ order_actions = EmptyBag
  /\ mgmt = [s \in Sessions |-> Mounted([o \in OrderIds |-> "pending"])]
  /\ profiles = [u \in Users |-> IF u = ModalUser THEN "admin" ELSE "cashier"]
  /\ staff = StaffMounted("u2", TRUE)
  /\ modal = ModalMounted
  /\ feed = Subscribed

Init == InitStaff /\ InitCreation(0)

DoCreateItem ==
  \E i \in Items, s \in StockValues, m \in MinValues, ok \in BOOLEAN :
    CreateItem(i, s, m, ok)

DoUpdateItem ==
  \E i \in Items, s \in StockValues, m \in MinValues, ok \in BOOLEAN :
    UpdateItem(i, s, m, ok)

DoAcknowledgeAlert ==
  \E a \in BagToSet(low_stock_alerts) : AcknowledgeAlert(a)

InvNext == DoCreateItem \/ DoUpdateItem \/ DoAcknowledgeAlert

InvSpec == Init /\ [][InvNext]_vars

DoMount == \E s \in Sessions : Mount(s)
DoQuickAction ==
  \E s \in Sessions, o \in OrderIds, a \in {"approve", "preparing", "ready", "complete"} :
    QuickAction(s, o, a)
DoOpenDialog ==
  \E s \in Sessions, o \in OrderIds, a \in {"cancel", "refund", "discount"} : OpenDialog(s, o, a)
DoTypeAmount == \E s \in Sessions, v \in AmountInputs : TypeAmount(s, v)
DoCloseDialog == \E s \in Sessions : CloseDialog(s)
DoConfirm == \E s \in Sessions : Confirm(s)
DoStoreUpdate == \E s \in Sessions, trigOk \in BOOLEAN, fault \in BOOLEAN : StoreUpdate(s, trigOk, fault)
DoStoreInsertAction == \E s \in Sessions, fault \in BOOLEAN : StoreInsertAction(s, fault)
DoStoreLogActivity == \E s \in Sessions, ok \in BOOLEAN : StoreLogActivity(s, ok)
DoFinally == \E s \in Sessions : Finally(s)
DoReloadOrders == \E s \in Sessions, ok \in BOOLEAN : ReloadOrders(s, ok)
DoDeleteOrder == \E o \in OrderIds, ok \in BOOLEAN : DeleteOrder(o, ok)

OrdNext ==
  \/ DoMount \/ DoQuickAction \/ DoOpenDialog \/ DoTypeAmount \/ DoCloseDialog \/ DoConfirm
  \/ DoStoreUpdate \/ DoStoreInsertAction \/ DoStoreLogActivity \/ DoReloadOrders \/ DoFinally
  \/ DoDeleteOrder

OrdSpec == Init /\ [][OrdNext]_vars

\* The two OrderManagement sessions with an order that has already been
\* brought to ready and is shown as ready on both screens; the activity-log
\* rows of its earlier changes lie outside the modelled window of the log.
InitReady ==
  /\ inventory = [i \in Items |-> IF i = "inv1" THEN InventoryRow(20, 10) ELSE NoItem]
  /\ low_stock_alerts = EmptyBag
  /\ activity_logs = EmptyBag
  /\ orders = [o \in OrderIds |-> OrderRow("ready")]
  /\ order_actions = EmptyBag
  /\ mgmt = [s \in Sessions |-> Mounted([o \in OrderIds |-> "ready"])]
  /\ profiles = [u \in Users |-> IF u = ModalUser THEN "admin" ELSE "cashier"]
  /\ staff = StaffMounted("u2", TRUE)
  /\ modal = ModalMounted
  /\ feed = Subscribed
  /\ InitCreation(0)

ReadySpec == InitReady /\ [][OrdNext]_vars

DoPublishInsert == \E flow \in Flows : PublishInsert(flow)
DoStoreSelectOrders == \E ok \in BOOLEAN : StoreSelectOrders(ok)
DoResolveLoadOrders == \E r \in BagToSet(feed.responses) : ResolveLoadOrders(r)

DoStaffMount == \E u \in Users, hidesOwn \in BOOLEAN : StaffMount(u, hidesOwn)
DoLoadProfiles == \E ok \in BOOLEAN : loadProfiles(ok)
DoClickRole == \E p \in Users, r \in StaffRoles : ClickRole(p, r)
DoStoreUpdateRole == \E fault \in BOOLEAN : StoreUpdateRole(fault)

StaffNext == DoStaffMount \/ DoLoadProfiles \/ DoClickRole \/ DoStoreUpdateRole

\* The staff page used by any of the accounts.
StaffSpec == Init /\ [][StaffNext]_vars

DoOpenScreen == \E flow \in Flows : OpenScreen(flow)
DoClickAdd == \E m \in MenuIds : ClickAdd(m)
DoClickQuantity == \E i \in 1..Len(cartScreen.rendered), delta \in {-1, 1} : ClickQuantity(i, delta)

CartNext == DoOpenScreen \/ Render \/ DoClickAdd \/ DoClickQuantity \/ ClearCart

\* A checkout screen's cart buttons, any number of clicks handled between two renders.
CartSpec == Init /\ [][CartNext]_vars

FeedNext == DoPublishInsert \/ OnInsert \/ DoStoreSelectOrders \/ DoResolveLoadOrders

\* A subscribed screen and the checkout flows' inserts. Every payload published
\* is handed to the callback, every query sent is executed and every result is
\* handed back to loadOrders().
FeedSpec ==
  /\ Init
  /\ [][FeedNext]_vars
  /\ WF_vars(OnInsert)
  /\ WF_vars(DoStoreSelectOrders)
  /\ WF_vars(DoResolveLoadOrders)

\* The order-number generator alone, started with the sequence fresh or close
\* to its 10000th value.
InitGen == InitStaff /\ \E start \in SequenceStarts : InitCreation(start)

DoGenerate ==
  generate_order_number /\ UNCHANGED <<activity_logs, invVars, feedVars, staffVars, screenVars, ordVars, modalVars, checkoutVars>>

DoNextDay ==
  NextDay /\ UNCHANGED <<activity_logs, invVars, feedVars, staffVars, screenVars, ordVars, modalVars, checkoutVars>>

DoApplySearchPathMigration ==
  ApplySearchPathMigration /\ UNCHANGED <<activity_logs, invVars, feedVars, staffVars, screenVars, ordVars, modalVars, checkoutVars>>

GenNext == DoGenerate \/ DoNextDay \/ DoApplySearchPathMigration

GenSpec == InitGen /\ [][GenNext]_vars

DoOpenFlow == \E f \in Flows : OpenFlow(f) /\ UNCHANGED <<invVars, feedVars, staffVars, screenVars, ordVars, modalVars>>
DoAddToCart == \E m \in MenuIds : addToCart(m) /\ UNCHANGED <<invVars, feedVars, staffVars, screenVars, ordVars, modalVars>>
DoUpdateQuantity ==
  \E m \in MenuIds, q \in 0..MaxQuantity : updateQuantity(m, q) /\ UNCHANGED <<invVars, feedVars, staffVars, screenVars, ordVars, modalVars>>
DoTypeCustomerName == \E v \in NameInputs : TypeCustomerName(v) /\ UNCHANGED <<invVars, feedVars, staffVars, screenVars, ordVars, modalVars>>
DoTypeCustomerPhone == \E v \in PhoneInputs : TypeCustomerPhone(v) /\ UNCHANGED <<invVars, feedVars, staffVars, screenVars, ordVars, modalVars>>
DoSubmit ==
  \E tail \in ClockTails, tag \in RandomTags : Submit(tail, tag) /\ UNCHANGED <<invVars, feedVars, staffVars, screenVars, ordVars, modalVars>>
DoStoreGenerateNumber == StoreGenerateNumber /\ UNCHANGED <<invVars, feedVars, staffVars, screenVars, ordVars, modalVars>>
DoStoreInsertOrder ==
  \E trigOk \in BOOLEAN, fault \in BOOLEAN :
    StoreInsertOrder(trigOk, fault) /\ UNCHANGED <<invVars, feedVars, staffVars, screenVars, ordVars, modalVars>>
DoStoreInsertItems == \E fault \in BOOLEAN : StoreInsertItems(fault) /\ UNCHANGED <<invVars, feedVars, staffVars, screenVars, ordVars, modalVars>>
DoStoreSalesLog == \E ok \in BOOLEAN : StoreSalesLog(ok) /\ UNCHANGED <<invVars, feedVars, staffVars, screenVars, ordVars, modalVars>>
DoStoreCheckoutLog == \E ok \in BOOLEAN : StoreCheckoutLog(ok) /\ UNCHANGED <<invVars, feedVars, staffVars, screenVars, ordVars, modalVars>>
DoFinishCheckout == FinishCheckout /\ UNCHANGED <<invVars, feedVars, staffVars, screenVars, ordVars, modalVars>>
DoUpdateMenuPrice ==
  \E m \in MenuIds, price \in Prices, logOk \in BOOLEAN :
    UpdateMenuPrice(m, price, logOk) /\ UNCHANGED <<invVars, feedVars, staffVars, screenVars, ordVars, modalVars>>
DoDeleteMenuItem ==
  \E m \in MenuIds, logOk \in BOOLEAN : DeleteMenuItem(m, logOk) /\ UNCHANGED <<invVars, feedVars, staffVars, screenVars, ordVars, modalVars>>

\* The checkout screens, one open at a time, the store's answers to their
\* statements, and the migration of the order-number generator.
CheckoutNext ==
  \/ DoOpenFlow \/ DoAddToCart \/ DoUpdateQuantity \/ DoTypeCustomerName \/ DoTypeCustomerPhone
  \/ DoSubmit \/ DoStoreGenerateNumber \/ DoStoreInsertOrder \/ DoStoreInsertItems
  \/ DoStoreSalesLog \/ DoStoreCheckoutLog \/ DoFinishCheckout
  \/ DoApplySearchPathMigration

CheckoutSpec == Init /\ [][CheckoutNext]_vars

\* The checkout screens with menu management going on beside them.
PriceNext ==
  \/ DoOpenFlow \/ DoAddToCart \/ DoUpdateQuantity \/ DoTypeCustomerName \/ DoTypeCustomerPhone
  \/ DoSubmit \/ DoStoreGenerateNumber \/ DoStoreInsertOrder \/ DoStoreInsertItems
  \/ DoStoreSalesLog \/ DoStoreCheckoutLog \/ DoFinishCheckout
  \/ DoUpdateMenuPrice \/ DoDeleteMenuItem

PriceSpec == Init /\ [][PriceNext]_vars

\* Everything one session's OrderManagement component can do, with the store's
\* answers to its statements.
SessionNext(s) ==
  \/ Mount(s)
  \/ \E o \in OrderIds, a \in {"approve", "preparing", "ready", "complete"} : QuickAction(s, o, a)
  \/ \E o \in OrderIds, a \in {"cancel", "refund", "discount"} : OpenDialog(s, o, a)
  \/ \E v \in AmountInputs : TypeAmount(s, v)
  \/ CloseDialog(s)
  \/ Confirm(s)
  \/ \E trigOk \in BOOLEAN, fault \in BOOLEAN : StoreUpdate(s, trigOk, fault)
  \/ \E fault \in BOOLEAN : StoreInsertAction(s, fault)
  \/ \E ok \in BOOLEAN : StoreLogActivity(s, ok)
  \/ \E ok \in BOOLEAN : ReloadOrders(s, ok)
  \/ Finally(s)

\* The first OrderManagement component (approve writes 'preparing') used alone.
VariantANext == SessionNext("s1")
VariantASpec == Init /\ [][VariantANext]_vars

DoUpdateRole == \E r \in Roles : updateRole(r)
DoLoadOrderDetails == \E ok \in BOOLEAN : loadOrderDetails(ok)
DoLoadUserRole == \E ok \in BOOLEAN : loadUserRole(ok)
DoSetEditing == \E on \in BOOLEAN : SetEditing(on)
DoSelectStatus == \E v \in {"pending", "completed", "cancelled", "void"} : SelectStatus(v)
DoTypePassword == \E p \in PasswordInputs : TypePassword(p)
DoStoreModalUpdate == \E trigOk \in BOOLEAN, fault \in BOOLEAN : StoreModalUpdate(trigOk, fault)
DoStoreModalLog == \E ok \in BOOLEAN : StoreModalLog(ok)

ModalNext ==
  \/ DoUpdateRole \/ handleViewOrder \/ handleCloseModal
  \/ DoLoadOrderDetails \/ DoLoadUserRole
  \/ DoSetEditing \/ DoSelectStatus \/ handleSaveChanges
  \/ handleVoidOrder \/ DoTypePassword \/ CancelVoidDialog \/ handleAdminPasswordSubmit
  \/ DoStoreModalUpdate \/ DoStoreModalLog

ModalSpec == Init /\ [][ModalNext]_vars

\* ------------------------------------------------------------------ inventory claims

\* The unacknowledged alert rows of item i, as a bag.
Unacknowledged(alerts, i) ==
  LET rows == {a \in BagToSet(alerts) : a.inventory_id = i /\ a.is_acknowledged = FALSE}
  IN [a \in rows |-> alerts[a]]

\* Exactly one unacknowledged alert of the given level, or none at all.
OneAlert(i, level) == SetToBag({AlertRow(i, level)})

\* This step is an UPDATE of item i that changed its current_stock.
StockChanged(i) ==
  /\ inventory[i] # NoItem
  /\ inventory'[i] # NoItem
  /\ inventory'[i].current_stock # inventory[i].current_stock

\* This step is an UPDATE of item i that left its current_stock as it was: it
\* changed min_stock_level, or changed neither and wrote its activity row.
StockKept(i) ==
  /\ inventory[i] # NoItem
  /\ inventory'[i] # NoItem
  /\ inventory'[i].current_stock = inventory[i].current_stock
  /\ \/ inventory'[i].min_stock_level # inventory[i].min_stock_level
     \/ activity_logs' = activity_logs (+) SetToBag({LogRow("UPDATE", i)})

\* C1 as stated: after an update that changes current_stock to s (min level m),
\* the unacknowledged alerts of the item are one out_of_stock if s = 0, one
\* critical if 0 < s <= m*0.5, one low if m*0.5 < s <= m, none if s > m.
C1_AsStated ==
  [][\A i \in Items : StockChanged(i) =>
      LET s == inventory'[i].current_stock
          m == inventory'[i].min_stock_level
          unack == Unacknowledged(low_stock_alerts', i)
      IN /\ (s = 0) => unack = OneAlert(i, "out_of_stock")
         /\ (0 < s /\ 2 * s <= m) => unack = OneAlert(i, "critical")
         /\ (m < 2 * s /\ s <= m) => unack = OneAlert(i, "low")
         /\ (s > m) => unack = EmptyBag]_vars

\* C1, amended: as C1, but no alert only if s > m and s # 0 (stock 0 is
\* out_of_stock also when the min level is negative).
C1_AlertLevelAfterUpdate ==
  [][\A i \in Items : StockChanged(i) =>
      LET s == inventory'[i].current_stock
          m == inventory'[i].min_stock_level
          unack == Unacknowledged(low_stock_alerts', i)
      IN /\ (s = 0) => unack = OneAlert(i, "out_of_stock")
         /\ (0 < s /\ 2 * s <= m) => unack = OneAlert(i, "critical")
         /\ (m < 2 * s /\ s <= m) => unack = OneAlert(i, "low")
         /\ (s > m /\ s # 0) => unack = EmptyBag]_vars

\* C1 witness: the example's third stage: min 10, stock 4, a critical alert
\* replaced the low one, which was acknowledged before and is kept.
C1_Witness ==
  /\ inventory["inv1"] = InventoryRow(4, 10)
  /\ Unacknowledged(low_stock_alerts, "inv1") = OneAlert("inv1", "critical")
  /\ BagIn([AlertRow("inv1", "low") EXCEPT !.is_acknowledged = TRUE], low_stock_alerts)

\* C2: in every reachable state each inventory item has at most one alert row
\* with is_acknowledged = false.
C2_AtMostOneUnacknowledged ==
  \A i \in Items : BagCardinality(Unacknowledged(low_stock_alerts, i)) <= 1

\* C2 witness: both items carry an unacknowledged alert at once, each exactly one.
C2_Witness ==
  \A i \in Items : BagCardinality(Unacknowledged(low_stock_alerts, i)) = 1

\* C3: a step that runs the stock-change trigger keeps every acknowledged alert
\* row: each acknowledged row has as many copies after the step as before.
C3_AcknowledgedKept ==
  [][(\E i \in Items : StockChanged(i)) =>
      \A a \in BagToSet(low_stock_alerts) :
        a.is_acknowledged => CopiesIn(a, low_stock_alerts') = CopiesIn(a, low_stock_alerts)]_vars

\* C3 witness: item inv1 is well stocked again and has no unacknowledged alert,
\* while the acknowledged out_of_stock alert of an earlier update is still there.
C3_Witness ==
  /\ inventory["inv1"] = InventoryRow(20, 10)
  /\ Unacknowledged(low_stock_alerts, "inv1") = EmptyBag
  /\ BagIn([AlertRow("inv1", "out_of_stock") EXCEPT !.is_acknowledged = TRUE], low_stock_alerts)

\* C4: an inventory update that leaves current_stock at its previous value
\* creates, deletes and modifies no low_stock_alerts row.
C4_NoAlertChangeWithoutStockChange ==
  [][(\E i \in Items : StockKept(i)) => low_stock_alerts' = low_stock_alerts]_vars

\* C4 witness: the min level of inv1 was changed from 10 to -1 while the stock
\* stayed 10, and the low alert computed for min level 10 is still there.
C4_Witness ==
  /\ inventory["inv1"] = InventoryRow(10, -1)
  /\ Unacknowledged(low_stock_alerts, "inv1") = OneAlert("inv1", "low")

\* ------------------------------------------------------------------ order transitions

\* The order_actions row performOrderAction of session s writes for its call.
CallRow(s) ==
  ActionRow(mgmt[s].call.orderId, mgmt[s].call.actionType, SessionUser(s),
            AmountColumn(mgmt[s].actionAmount))

\* Session s moves from position p to position q in this step.
Moves(s, p, q) == mgmt[s].pc = p /\ mgmt'[s].pc = q

\* C5: an order-management action that reports success has set the stored
\* status of its order to its target and has appended exactly one order_actions
\* row with the order's id, the action type, the acting user's id and the entered
\* amount (or null). Success is reported only after the log step, which is reached
\* only through an accepted insert, which is reached only through an accepted
\* update; the update sets the status of the order the insert then finds, the
\* insert adds exactly the call's row, and the other steps of the attempt add none.
C5_SuccessHasStatusAndRow ==
  [][\A s \in Sessions :
      LET m == mgmt[s]
          c == m.call
      IN /\ (mgmt'[s].pc = "reload" /\ m.pc # "reload") => m.pc = "log"
         /\ (mgmt'[s].pc = "log" /\ m.pc # "log") =>
              /\ m.pc = "insert"
              /\ orders[c.orderId].exists
              /\ order_actions' = order_actions (+) SetToBag({CallRow(s)})
              /\ mgmt'[s].call = c
         /\ (mgmt'[s].pc = "insert" /\ m.pc # "insert") =>
              /\ m.pc = "update"
              /\ orders[c.orderId].exists => orders'[c.orderId] = OrderRow(c.newStatus)
              /\ order_actions' = order_actions
              /\ mgmt'[s].call = c /\ mgmt'[s].actionAmount = m.actionAmount
         /\ Moves(s, "log", "reload") => order_actions' = order_actions /\ orders' = orders
         /\ \A o \in OrderIds : orders'[o].exists => orders[o].exists]_vars

\* A refund with an amount of 50 has reported success: the order carries the
\* refund's target status and the refund's row is in order_actions.
C5_Witness ==
  \E s \in Sessions :
    /\ mgmt[s].pc = "reload"
    /\ mgmt[s].call.actionType = "refund"
    /\ orders[mgmt[s].call.orderId] = OrderRow(mgmt[s].call.newStatus)
    /\ CallRow(s).amount = {50}
    /\ CopiesIn(CallRow(s), order_actions) = 1
    /\ BagCardinality(order_actions) = 1

\* C6: when the store rejects the status update of a transition, the attempt
\* writes no order_actions row and no activity-log row, leaves the stored orders
\* as they were, and shows the failure notice; the step after the notice writes
\* nothing either.
C6_RejectedUpdateWritesNothing ==
  [][\A s \in Sessions :
      /\ \A trigOk \in BOOLEAN, fault \in BOOLEAN :
           ( /\ mgmt[s].pc = "update"
             /\ UpdateError(mgmt[s].call.orderId, mgmt[s].call.newStatus, trigOk, fault) # "none"
             /\ StoreUpdate(s, trigOk, fault) ) =>
             /\ orders' = orders
             /\ order_actions' = order_actions
             /\ activity_logs' = activity_logs
             /\ Toast(mgmt'[s]) = "Action Failed"
      /\ (mgmt[s].pc = "failed" /\ mgmt'[s] # mgmt[s]) =>
             /\ mgmt'[s].pc \in {"idle", "dialog"}
             /\ UNCHANGED <<orders, order_actions, activity_logs>>]_vars

\* Screen B's approve was rejected by the status CHECK: the failure notice is
\* shown, the order is still pending, nothing was written.
C6_Witness ==
  \E s \in Sessions :
    /\ Toast(mgmt[s]) = "Action Failed"
    /\ mgmt[s].error = "check_violation"
    /\ mgmt[s].call.actionType = "approve"
    /\ orders[mgmt[s].call.orderId] = OrderRow("pending")
    /\ order_actions = EmptyBag
    /\ activity_logs = EmptyBag

\* C7: when the status update was accepted and the order_actions insert fails,
\* the failing step changes no table (the status written by the update stays, no
\* row is added) and the failure notice is shown.
C7_FailedInsertKeepsStatus ==
  [][\A s \in Sessions : \A fault \in BOOLEAN :
      ( /\ mgmt[s].pc = "insert"
        /\ InsertActionError(mgmt[s].call.orderId, fault) # "none"
        /\ StoreInsertAction(s, fault) ) =>
        /\ orders' = orders
        /\ order_actions' = order_actions
        /\ activity_logs' = activity_logs
        /\ Toast(mgmt'[s]) = "Action Failed"]_vars

\* Screen A's approve had its update accepted and its insert rejected: the order
\* is stored as preparing, the trigger's row is logged, order_actions is empty
\* and the failure notice is shown.
C7_Witness ==
  \E s \in Sessions :
    /\ Toast(mgmt[s]) = "Action Failed"
    /\ mgmt[s].error = "store_error"
    /\ mgmt[s].call.actionType = "approve"
    /\ orders[mgmt[s].call.orderId] = OrderRow("preparing")
    /\ order_actions = EmptyBag
    /\ activity_logs = SetToBag({StatusChangedRow(mgmt[s].call.orderId, "pending", "preparing")})

\* C8: a failure while writing an activity-log entry is never shown to the user
\* as a failure of the primary action (and so never keeps the primary mutation
\* from being stored): no session shows the failure notice for an error raised
\* by the activity log.
C8_LogFailureNeverSurfaces ==
  \A s \in Sessions :
    ~(Toast(mgmt[s]) = "Action Failed" /\ mgmt[s].error = "activity_log_failed")

VoidWriteIssued ==
  /\ modal.request = "none"
  /\ modal'.request = "update"
  /\ modal'.requestStatus = "void"

\* C10: no write that sets an order's status to void is issued for a user whose
\* loaded role is not admin (not loaded yet included) unless the user submits the
\* correct secondary password in that attempt; a wrong password issues no write.
C10_VoidNeedsAdminOrPassword ==
  [][VoidWriteIssued =>
       \/ modal.userRole = "admin"
       \/ modal.showVoidDialog /\ modal.adminPassword = "admin123"]_vars

\* C11: when an authorized user (admin, or anyone after the valid secondary
\* password) voids an order, the order's stored status becomes void and one
\* order_actions row of type void naming that user is appended. Every void
\* update the dialog sends comes from an authorized user (the void button of an
\* admin or an accepted password); the store executing it without a fault of
\* its own must leave that effect.
C11_VoidHasEffect ==
  [][( /\ modal.request = "update"
       /\ modal.requestBy = "void"
       /\ orders[ModalOrder].exists
       /\ BagCardinality(activity_logs) < MaxOrderLogs
       /\ StoreModalUpdate(TRUE, FALSE) ) =>
       /\ orders'[ModalOrder] = OrderRow("void")
       /\ order_actions' = order_actions (+) SetToBag({ActionRow(ModalOrder, "void", ModalUser, {})})]_vars

\* ------------------------------------------------------------------ lifecycle

\* The lifecycle table of variant A: for a displayed status, the offered actions
\* with the status each writes.
VariantATable(status) ==
  CASE status = "pending" -> {<<"approve", "preparing">>, <<"cancel", "cancelled">>}
    [] status = "preparing" -> {<<"ready", "ready">>}
    [] status = "ready" -> {<<"complete", "completed">>, <<"refund", "ready">>,
                            <<"discount", "ready">>}
    [] status = "completed" -> {<<"refund", "completed">>, <<"discount", "completed">>}
    [] OTHER -> {}

\* The status changes of variant A's lifecycle.
VariantAMoves ==
  {<<"pending", "preparing">>, <<"preparing", "ready">>, <<"ready", "completed">>,
   <<"pending", "cancelled">>}

\* C13: on screen A, for an order displayed with status s, the offered actions
\* are exactly those of the table and every status update the screen sends
\* carries an action and target of the table's row for s; an update sent from
\* an up-to-date view (displayed status = stored status) leaves the status as it
\* was or moves it along pending, preparing, ready, completed or from pending
\* to cancelled.
C13_VariantATable ==
  [][\A s \in Sessions : Screen(s) = "A" =>
      LET m == mgmt[s]
      IN /\ \A o \in OrderIds : (m.pc = "idle" /\ m.orders[o] \in Statuses) =>
              QuickButtons("A", m.orders[o]) \cup DialogButtons(m.orders[o])
                = {p[1] : p \in VariantATable(m.orders[o])}
         /\ (m.pc \in {"idle", "dialog"} /\ mgmt'[s].pc = "update") =>
              LET c == mgmt'[s].call
              IN <<c.actionType, c.newStatus>> \in VariantATable(m.orders[c.orderId])
         /\ ( /\ m.pc = "update" /\ mgmt'[s].pc = "insert"
              /\ orders[m.call.orderId].exists
              /\ m.orders[m.call.orderId] = orders[m.call.orderId].status ) =>
              \/ orders'[m.call.orderId] = orders[m.call.orderId]
              \/ <<orders[m.call.orderId].status, orders'[m.call.orderId].status>>
                   \in VariantAMoves]_vars

\* Screen A showed the order as ready, sent complete, and the store has moved
\* the order from ready to completed.
C13_Witness ==
  \E s \in Sessions :
    /\ Screen(s) = "A"
    /\ mgmt[s].pc = "insert"
    /\ mgmt[s].call.actionType = "complete"
    /\ mgmt[s].orders[mgmt[s].call.orderId] = "ready"
    /\ orders[mgmt[s].call.orderId] = OrderRow("completed")

\* C14: on screen B, the status update of an approve action on a stored pending
\* order, with the store and its trigger working, leaves the stored status
\* approved and the handler goes on to record the action.
C14_ApproveLeavesApproved ==
  [][\A s \in Sessions :
      ( /\ Screen(s) = "B"
        /\ mgmt[s].pc = "update"
        /\ mgmt[s].call.actionType = "approve"
        /\ orders[mgmt[s].call.orderId] = OrderRow("pending")
        /\ BagCardinality(activity_logs) < MaxOrderLogs
        /\ StoreUpdate(s, TRUE, FALSE) ) =>
        /\ orders'[mgmt[s].call.orderId] = OrderRow("approved")
        /\ mgmt'[s].pc = "insert"]_vars

\* C15: the status update a refund or discount action sends, with the store
\* and its trigger working, leaves the stored order as it was, whatever other
\* sessions did since the dialog was opened.
C15_RefundDiscountKeepsStatus ==
  [][\A s \in Sessions :
      ( /\ mgmt[s].pc = "update"
        /\ mgmt[s].call.actionType \in {"refund", "discount"}
        /\ BagCardinality(activity_logs) < MaxOrderLogs
        /\ StoreUpdate(s, TRUE, FALSE) ) =>
        orders' = orders]_vars

\* ------------------------------------------------------------------ order creation

\* a sorts before b: the first character in which they differ is smaller in a.
RECURSIVE SortsBefore(_, _)
SortsBefore(a, b) ==
  IF a = <<>> THEN b # <<>>
  ELSE IF b = <<>> THEN FALSE
  ELSE IF Head(a) # Head(b)
       THEN \E i, j \in 1..Len(DigitChars) :
              i < j /\ DigitChars[i] = Head(a) /\ DigitChars[j] = Head(b)
  ELSE SortsBefore(Tail(a), Tail(b))

\* str has the form ORD-<8 digits>-<4 digits>.
HasOrderNumberForm(str) ==
  /\ Len(str) = 17
  /\ SubSeq(str, 1, 4) = <<"O", "R", "D", "-">>
  /\ str[13] = "-"
  /\ \A i \in (5..12) \cup (14..17) : \E d \in 1..Len(DigitChars) : str[i] = DigitChars[d]

\* C16: the strings returned by any two calls of generate_order_number have
\* the form ORD-<YYYYMMDD>-<4 digits> and are different, and when both calls
\* were made on the same day the later string does not sort before the earlier.
C16_GeneratedNumbersUniqueAndOrdered ==
  \A i, j \in 1..Len(issued) :
    (i < j /\ issued[i].value # NoNumber /\ issued[j].value # NoNumber) =>
      /\ HasOrderNumberForm(issued[i].value)
      /\ HasOrderNumberForm(issued[j].value)
      /\ issued[i].value # issued[j].value
      /\ issued[i].day = issued[j].day => ~SortsBefore(issued[j].value, issued[i].value)

\* The rows of the store the checkout flows write, and the generator's state.
CheckoutStore == <<checkout_orders, order_items, sales_logs, activity_logs, order_sequence, issued>>

\* C17: whenever a checkout flow stores an order, the stored total_amount
\* equals subtotal + tax, the subtotal being the sum of quantity x unit price
\* over the cart and the tax 10% or 12% of the subtotal; for the cart of
\* 2 @ 100 and 1 @ 50 the stored total_amount is 275 or 280.
C17_StoredTotalIsSubtotalPlusTax ==
  [][Len(checkout_orders') = Len(checkout_orders) + 1 =>
      LET row == checkout_orders'[Len(checkout_orders')]
          subtotal == calculateSubtotal(checkout.cart)
      IN /\ \E rate \in {10, 12} : row.total_amount = subtotal + (subtotal * rate) \div 100
         /\ subtotal = 25000 => row.total_amount \in {27500, 28000}]_vars

\* A required field of the open customer flow is empty: the name in both
\* flows, the phone in the customer homepage.
RequiredFieldMissing ==
  /\ checkout.flow \in {"homepage", "menu"}
  /\ \/ checkout.customerName = ""
     \/ checkout.flow = "homepage" /\ checkout.customerPhone = ""

\* C19: in a customer flow, a submission with an empty required field ends in
\* the missing-information notice with the cart as it was and nothing asked of
\* the store (no order number, no order, no order item, no log row), and from
\* that notice the component's next step only returns it to rest, again without
\* any store call.
C19_MissingFieldBlocksSubmission ==
  [][/\ (checkout.pc = "idle" /\ checkout'.pc # "idle" /\ RequiredFieldMissing) =>
          /\ CheckoutToast(checkout') = "Missing Information"
          /\ checkout'.cart = checkout.cart
          /\ UNCHANGED CheckoutStore
     /\ (checkout.pc = "missing" /\ checkout' # checkout) =>
          /\ checkout'.pc = "idle"
          /\ checkout'.cart = checkout.cart
          /\ UNCHANGED CheckoutStore]_vars

\* The customer homepage with a name, a filled cart and no phone has been
\* submitted and shows the missing-information notice.
C19_Witness ==
  /\ checkout.flow = "homepage"
  /\ checkout.pc = "missing"
  /\ checkout.customerName = "Ana"
  /\ checkout.customerPhone = ""
  /\ checkout.cart # <<>>

\* C20: a failed order insert ends the submission with the failure notice and
\* writes no order, order item, sales log or activity log row; a failed
\* order-item insert ends it with the failure notice, leaves the order row
\* stored with no item and writes no log row; in both cases the cart stays,
\* and from the failure notice the component's next step only returns it to
\* rest: no later step and no retry.
C20_StoreErrorAbortsCreation ==
  [][/\ (checkout.pc = "order" /\ checkout' # checkout
                                /\ Len(checkout_orders') = Len(checkout_orders)) =>
          /\ CheckoutToast(checkout') = "failure"
          /\ checkout'.cart = checkout.cart
          /\ UNCHANGED CheckoutStore
     /\ (checkout.pc = "items" /\ checkout' # checkout /\ order_items' = order_items) =>
          /\ CheckoutToast(checkout') = "failure"
          /\ checkout'.cart = checkout.cart
          /\ UNCHANGED CheckoutStore
          /\ \E i \in 1..Len(checkout_orders) : NewOrderIds[i] = checkout.submission.orderId
          /\ \A r \in BagToSet(order_items) : r.order_id # checkout.submission.orderId
     /\ (checkout.pc = "failed" /\ checkout' # checkout) =>
          /\ checkout'.pc = "idle"
          /\ checkout'.cart = checkout.cart
          /\ UNCHANGED CheckoutStore]_vars

\* The order-item insert of a submission has failed: the failure notice is
\* shown, the order row is stored without items and the cart is still filled.
C20_Witness ==
  /\ checkout.pc = "failed"
  /\ checkout.submission.orderId = NewOrderIds[1]
  /\ Len(checkout_orders) = 1
  /\ order_items = EmptyBag
  /\ checkout.cart # <<>>

\* The price of a stored menu item changes in this step.
PriceChanges ==
  \E m \in MenuIds :
    menu_items[m].exists /\ menu_items'[m].exists /\ menu_items'[m].price # menu_items[m].price

\* C18: every stored order item has total_price = quantity x unit_price; the
\* items insert of a submission adds, for each cart line, one row with the
\* line's quantity and price; no other step adds or changes a row (rows only go
\* away with their menu item), and a change of a menu item's price leaves
\* order_items as it was.
C18_OrderItemPricesFixed ==
  [][/\ \A r \in BagToSet(order_items') : r.total_price = r.quantity * r.unit_price
     /\ (checkout.pc = "items" /\ checkout' # checkout /\ order_items' # order_items) =>
          order_items' = order_items (+) SetToBag(
            {[order_id |-> checkout.submission.orderId,
              menu_item_id |-> checkout.cart[i].id,
              quantity |-> checkout.cart[i].quantity,
              unit_price |-> checkout.cart[i].price,
              total_price |-> checkout.cart[i].quantity * checkout.cart[i].price]
               : i \in 1..Len(checkout.cart)})
     /\ ~(checkout.pc = "items" /\ checkout' # checkout) => order_items' \sqsubseteq order_items
     /\ PriceChanges => order_items' = order_items]_vars

\* An order item of quantity 2 is stored whose menu item now has another price
\* than the item's unit_price.
C18_Witness ==
  \E r \in BagToSet(order_items) :
    /\ r.quantity = 2
    /\ menu_items[r.menu_item_id].exists
    /\ menu_items[r.menu_item_id].price # r.unit_price
    /\ checkout.menuItems[r.menu_item_id].price = r.unit_price

\* ------------------------------------------------------------------ sales views

\* orders.total_amount of the orders the order-management model follows; a
\* status update never writes the column.
total_amount == [o \in OrderIds |-> 27500]

\* The sum of total_amount over a set of orders (reduce / forEach +=).
RECURSIVE SumTotals(_)
SumTotals(ids) ==
  IF ids = {} THEN 0
  ELSE LET o == CHOOSE x \in ids : TRUE
       IN total_amount[o] + SumTotals(ids \ {o})

\* SalesChart.loadSalesData: .not("status", "in", '("canceled","void","refunded","test")').
loadSalesData ==
  {o \in OrderIds : orders[o].exists
                    /\ orders[o].status \notin {"canceled", "void", "refunded", "test"}}

\* processSalesData: current.sales += parseFloat(order.total_amount) over the rows loaded.
ChartSales == SumTotals(loadSalesData)

\* loadDashboardData: .eq('status', 'pending') and its count.
pendingOrders == Cardinality({o \in OrderIds : orders[o].exists /\ orders[o].status = "pending"})

\* loadDashboardData: the sum over .eq('status', 'completed').
dailySales == SumTotals({o \in OrderIds : orders[o].exists /\ orders[o].status = "completed"})

\* SalesHistory: totalSales over filteredOrders with an empty search term, the
\* rows loaded without a status filter.
totalSales == SumTotals({o \in OrderIds : orders[o].exists})

\* C21: a stored cancelled order is not counted as pending and adds nothing to
\* the dashboard's daily sales, to the sales-history total or to the sales
\* chart.
C21_CancelledLeftOut ==
  \A o \in OrderIds :
    (orders[o].exists /\ orders[o].status = "cancelled") =>
      /\ pendingOrders = Cardinality({x \in OrderIds \ {o} : orders[x].exists /\ orders[x].status = "pending"})
      /\ dailySales = SumTotals({x \in OrderIds \ {o} : orders[x].exists /\ orders[x].status = "completed"})
      /\ o \notin loadSalesData
      /\ ChartSales = SumTotals(loadSalesData \ {o})
      /\ totalSales = SumTotals({x \in OrderIds \ {o} : orders[x].exists})

\* C22: order_actions is append-only: every step keeps each row it held, with
\* all its copies and unchanged.
C22_OrderActionsAppendOnly ==
  [][order_actions \sqsubseteq order_actions']_vars

\* ------------------------------------------------------------------ activity log of status changes

\* C23: every order status change appends one activity-log entry for that
\* change, carrying the order id and the old and the new status: the update
\* that changes the status adds exactly that one row, and the rest of the
\* transition (the handler's steps after its status-changing update) adds no
\* further activity-log row.
C23_OneLogRowPerStatusChange ==
  [][/\ \A o \in OrderIds :
          (orders[o].exists /\ orders'[o].exists /\ orders'[o].status # orders[o].status)
            => activity_logs' =
                 activity_logs (+) SetToBag({StatusChangedRow(o, orders[o].status, orders'[o].status)})
     /\ \A s \in Sessions :
          LET c == mgmt[s].call
          IN (/\ mgmt[s].pc = "log"
              /\ mgmt'[s].pc # "log"
              /\ orders[c.orderId].exists
              /\ orders[c.orderId].status = c.newStatus
              /\ \E old \in Statuses \ {c.newStatus} :
                   StatusChangedRow(c.orderId, old, c.newStatus) \in BagToSet(activity_logs))
            => activity_logs' = activity_logs]_vars

\* ------------------------------------------------------------------ concurrent status writes

\* Session t has a status write for order o in flight or already applied.
WritesOrder(t, o) ==
  /\ mgmt[t].pc \in {"update", "insert", "log", "reload"}
  /\ mgmt[t].call.orderId = o

\* C24: concurrent edits of one order are last-write-wins. While another
\* session has its own status write for the same order in flight or applied,
\* the store does not reject a session's status update (it fails only for a
\* store fault or a failed trigger log): the stored status becomes the target
\* of this write whatever it was, and the session's order_actions row is
\* appended next.
C24_LastWriteWins ==
  [][\A s \in Sessions : \A t \in Sessions \ {s} :
       LET c == mgmt[s].call
           o == c.orderId
       IN (mgmt[s].pc \in {"update", "insert"} /\ WritesOrder(t, o) /\ orders[o].exists)
            => /\ (/\ mgmt[s].pc = "update"
                   /\ mgmt'[s].pc # "update"
                   /\ mgmt'[s].error \notin {"store_error", "activity_log_failed"})
                 => (mgmt'[s].pc = "insert" /\ orders'[o].status = c.newStatus)
               /\ (/\ mgmt[s].pc = "insert"
                   /\ mgmt'[s].pc # "insert"
                   /\ mgmt'[s].error # "store_error")
                 => /\ mgmt'[s].pc = "log"
                    /\ \E row \in BagToSet(order_actions') :
                         /\ row.order_id = o
                         /\ row.action_type = c.actionType
                         /\ row.action_by = SessionUser(s)
                         /\ order_actions' = order_actions (+) SetToBag({row})]_vars

\* ------------------------------------------------------------------ realtime feed of new orders

\* C25: every order inserted while the screen is subscribed eventually appears
\* in the screen's order list, given that its notification and the reloads'
\* results are delivered without error, also when several inserts come close
\* together and their reloads overlap: an order that is in the table is in the
\* list at some later moment, however late that moment is looked for. And the
\* new-order notice is shown only for inserted orders whose status is pending.
C25_InsertedOrderAppears ==
  /\ [](feed.toasts \subseteq {i \in 1..Len(feed.table) : feed.table[i] = "pending"})
  /\ \A i \in 1..MaxInserts :
       (Len(feed.table) >= i) ~> (i \in feed.orders \/ feed.loadError)

\* ------------------------------------------------------------------ staff roles

\* C26: a profile's role is mutable by any authenticated user: whoever is
\* signed in and whatever that user's own role, a role update for any profile
\* (the own one included) to admin, manager or cashier that the store executes
\* without a fault is accepted and leaves that profile's role equal to the
\* role asked for.
C26_AnyUserSetsAnyRole ==
  [][(staff.pc = "update" /\ staff'.pc # "update" /\ staff'.toast # "Failed to update role")
       => /\ staff.call.newRole \in StaffRoles
          /\ staff'.toast = "Role updated successfully"
          /\ profiles' = [profiles EXCEPT ![staff.call.userId] = staff.call.newRole]]_vars

\* A user whose stored role was cashier has made the own profile admin, and
\* another user's profile was changed as well.
C26_Witness ==
  /\ staff.pc = "load"
  /\ staff.call.userId = staff.user
  /\ staff.profiles[staff.user] = "cashier"
  /\ profiles[staff.user] = "admin"
  /\ \E p \in Users \ {staff.user} : profiles[p] = "manager"

\* ------------------------------------------------------------------ stored status values

\* A session that uses only its screen's quick-action buttons.
QuickNext(s) ==
  \/ Mount(s)
  \/ \E o \in OrderIds, a \in {"approve", "preparing", "ready", "complete"} : QuickAction(s, o, a)
  \/ \E trigOk \in BOOLEAN, fault \in BOOLEAN : StoreUpdate(s, trigOk, fault)
  \/ \E fault \in BOOLEAN : StoreInsertAction(s, fault)
  \/ \E ok \in BOOLEAN : StoreLogActivity(s, ok)
  \/ \E ok \in BOOLEAN : ReloadOrders(s, ok)
  \/ Finally(s)

\* The quick-action buttons of both OrderManagement screens (the second one's
\* approve sends 'approved') and the void path of the sales-history page's
\* order dialog (it sends 'void'), used side by side.
StatusNext ==
  \/ \E s \in Sessions : QuickNext(s)
  \/ handleViewOrder \/ handleCloseModal \/ DoLoadOrderDetails \/ DoLoadUserRole
  \/ handleVoidOrder \/ DoTypePassword \/ CancelVoidDialog \/ handleAdminPasswordSubmit
  \/ DoStoreModalUpdate
StatusSpec == Init /\ [][StatusNext]_vars

\* C27: in every reachable state every stored order has a status in {pending,
\* preparing, ready, completed, cancelled}: a write that would set any other
\* value is rejected by the store and leaves the order unchanged.
C27_StatusInCheckList ==
  /\ [](\A o \in OrderIds : orders[o].exists => orders[o].status \in Statuses)
  /\ [][/\ \A s \in Sessions :
             (mgmt[s].pc = "update" /\ mgmt'[s].pc # "update"
                /\ mgmt[s].call.newStatus \notin Statuses)
               => (orders' = orders /\ mgmt'[s].pc = "failed")
        /\ (modal.request = "update" /\ modal'.request # "update"
              /\ modal.requestStatus \notin Statuses)
             => (orders' = orders /\ modal'.request = "none")]_vars

\* Both rejected writes have happened: the screen's 'approved' has just been
\* refused with the CHECK's error, and the dialog's 'void' is about to be sent
\* for the same, still pending, order.
C27_Witness ==
  /\ mgmt["s2"].pc = "failed"
  /\ mgmt["s2"].error = "check_violation"
  /\ mgmt["s2"].call.newStatus = "approved"
  /\ modal.request = "update"
  /\ modal.requestStatus = "void"
  /\ orders[ModalOrder].status = "pending"

\* ------------------------------------------------------------------ unique order numbers

C29_AlertsAgreeWithValues ==
  \A i \in Items :
    inventory[i] # NoItem =>
      LET s == inventory[i].current_stock
          m == inventory[i].min_stock_level
          unack == Unacknowledged(low_stock_alerts, i)
      IN /\ (unack # EmptyBag) <=> (s <= m \/ s = 0)
         /\ \A l \in NewAlertLevels(s, m) : unack = OneAlert(i, l)

\* ------------------------------------------------------------------ cart

\* Every line of the cart has its own menu item and a quantity of at least 1.
CartWellFormed(cart) ==
  /\ \A i, j \in 1..Len(cart) : cart[i].id = cart[j].id => i = j
  /\ \A i \in 1..Len(cart) : cart[i].quantity >= 1

\* C30: in each checkout screen, after any sequence of add-to-cart, plus,
\* minus and remove actions (two actions handled before the screen re-renders
\* included), the cart holds at most one entry per menu item and every entry
\* has quantity >= 1, so every order item a submission would store has
\* quantity >= 1.
C30_CartWellFormed ==
  /\ CartWellFormed(cartScreen.cart)
  /\ CartWellFormed(cartScreen.rendered)
  /\ \A row \in orderItems("n1", cartScreen.rendered) : row.quantity >= 1
  /\ \A row \in orderItems("n1", cartScreen.cart) : row.quantity >= 1

\* The rendered cart has two lines, one of quantity 1, and clicks were handled
\* since that render: the cart now set is not the rendered one, a line of the
\* rendered cart is gone from it and the line left has the largest quantity.
C30_Witness ==
  /\ Len(cartScreen.rendered) = 2
  /\ \E i \in 1..2 : cartScreen.rendered[i].quantity = 1
  /\ Len(cartScreen.cart) = 1
  /\ cartScreen.cart[1].quantity = MaxQuantity

====
